---- MODULE Spec2Model ----
(***************************************************************************)
(* A model of the qmachine execution core: the classical 32-register       *)
(* engine (QuantumRISCVMachine), the host executor (executeHostQuantumFile *)
(* over HostQuantumMachine) and the text decoder they share.               *)
(*                                                                         *)
(* 64-bit values are sequences of 8 bytes, least significant first (the    *)
(* byte order of the engines' memory), so every width of the source is     *)
(* kept: uint64 arithmetic is modulo 2^64, uint32 conversion keeps the low *)
(* 4 bytes.  Program text is a sequence of lines, each a string.           *)
(***************************************************************************)
EXTENDS Integers, Sequences, FiniteSets, TLC

(* ------------------------------------------------------------------ *)
(* Bounds of the model                                                 *)
(* ------------------------------------------------------------------ *)

\* The number of instructions one run of a program may execute before the
\* model stops following it (programs may loop for ever).
MaxSteps == 8

\* The number of commands (load, run, single instruction) issued to the
\* classical machine.
MaxCallsVM == 2

\* Commands given to the classical engine when a run follows a command
\* that moved pc.
MaxCallsRun == 3

\* Commands issued to the host engine in one behaviour.
MaxCallsHost == 3

\* Calls a client of the monolithic backend makes in one behaviour.
MaxCallsGate == 4

\* Commands given to a shell, its construction included, in one behaviour.
MaxCallsShell == 4

\* Calls a client of the host engine's quantum registers makes.
MaxCallsBinding == 4

\* Instructions a client that does arithmetic gives to the classical engine.
MaxCallsArith == 4

\* Commands given to a handler whose mode is toggled, its construction
\* included.
MaxCallsMode == 5

\* Instructions a client that loads and stores gives to the classical
\* engine.
MaxCallsMem == 4

\* Calls a client makes to each quantum backend when the same gates are
\* given to both.
MaxCallsBackends == 3

\* Calls a client makes to the host machine with immediates of qapply that
\* name no gate.
MaxCallsSelect == 4

\* The default of the flag -qubits.
DefaultQubits == 2000

\* The number of qubits Handler.HandleReset makes the new machine with.
HandlerResetQubits == 2000

\* Calls a client that repeats gates on one qubit makes in one behaviour.
MaxCallsInvolution == 6

(* ------------------------------------------------------------------ *)
(* 64-bit words                                                        *)
(* ------------------------------------------------------------------ *)

Zero64 == <<0, 0, 0, 0, 0, 0, 0, 0>>

One64 == <<1, 0, 0, 0, 0, 0, 0, 0>>

\* The word of a natural number below 2^31.
Nat2W(n) ==
    << n % 256, (n \div 256) % 256, (n \div 65536) % 256,
       (n \div 16777216) % 256, 0, 0, 0, 0 >>

\* The natural number of a word below 2^31 (its low four bytes).
W2Nat(w) == w[1] + 256 * w[2] + 65536 * w[3] + 16777216 * w[4]

\* The value of e where v stands for the value of d, d being evaluated
\* once: F is LAMBDA v : e.
Let(d, F(_)) == CHOOSE r \in {F(v) : v \in {d}} : TRUE

\* A word as three limbs of 24, 24 and 16 bits, and back.
Lo(a) == a[1] + 256 * a[2] + 65536 * a[3]

Mid(a) == a[4] + 256 * a[5] + 65536 * a[6]

Hi(a) == a[7] + 256 * a[8]

Limbs(lo, mid, hi) ==
    << lo % 256, (lo \div 256) % 256, (lo \div 65536) % 256,
       mid % 256, (mid \div 256) % 256, (mid \div 65536) % 256,
       hi % 256, (hi \div 256) % 256 >>

\* a + b on the low 32 bits only, the high bits those of a.
Add64Narrow(a, b) ==
    LET lo  == Lo(a) + Lo(b)
        mid == (a[4] + b[4] + (lo \div 16777216)) % 256
    IN  Limbs(lo % 16777216, mid + 256 * (Mid(a) \div 256), Hi(a))

\* a + b modulo 2^64.
Add64(a, b) ==
    LET lo  == Lo(a) + Lo(b)
        mid == Mid(a) + Mid(b) + (lo \div 16777216)
        hi  == Hi(a) + Hi(b) + (mid \div 16777216)
    IN  Limbs(lo % 16777216, mid % 16777216, hi % 65536)

\* Whether a + b reaches 2^64 (the carry out of the addition).
Carry64(a, b) ==
    LET lo  == Lo(a) + Lo(b)
        mid == Mid(a) + Mid(b) + (lo \div 16777216)
        hi  == Hi(a) + Hi(b) + (mid \div 16777216)
    IN  hi >= 65536

Not64(a) == [i \in 1..8 |-> 255 - a[i]]

Neg64(a) == Add64(Not64(a), One64)

\* a - b modulo 2^64.
Sub64(a, b) == Add64(a, Neg64(b))

\* The two's-complement word of an integer of magnitude below 2^31.
Int2W(n) == IF n >= 0 THEN Nat2W(n) ELSE Neg64(Nat2W(-n))

\* Unsigned comparison, from the most significant byte down.
RECURSIVE LtFrom(_, _, _)
LtFrom(a, b, i) ==
    IF i = 0 THEN FALSE
    ELSE IF a[i] # b[i] THEN a[i] < b[i]
    ELSE LtFrom(a, b, i - 1)

LtU(a, b) == LtFrom(a, b, 8)

IsNeg(a) == a[8] >= 128

\* Signed (int64) comparison.
LtS(a, b) ==
    IF IsNeg(a) # IsNeg(b) THEN IsNeg(a) ELSE LtU(a, b)

\* The bits of a word, bit 0 first.
Bit(a, i) == (a[(i \div 8) + 1] \div (2 ^ (i % 8))) % 2

FromBits(f) ==
    [j \in 1..8 |->
        f[8 * (j - 1)] + 2 * f[8 * (j - 1) + 1] + 4 * f[8 * (j - 1) + 2]
        + 8 * f[8 * (j - 1) + 3] + 16 * f[8 * (j - 1) + 4]
        + 32 * f[8 * (j - 1) + 5] + 64 * f[8 * (j - 1) + 6]
        + 128 * f[8 * (j - 1) + 7]]

And64(a, b) == FromBits([i \in 0..63 |-> Bit(a, i) * Bit(b, i)])

Or64(a, b) ==
    FromBits([i \in 0..63 |-> IF Bit(a, i) + Bit(b, i) > 0 THEN 1 ELSE 0])

Xor64(a, b) == FromBits([i \in 0..63 |-> (Bit(a, i) + Bit(b, i)) % 2])

\* Go's shifts by an unsigned count: a count of 64 or more shifts every bit
\* out (and an arithmetic shift then leaves only copies of the sign).
ShiftCount(s) == IF LtU(s, Nat2W(64)) THEN s[1] ELSE 64

Shl64(a, s) ==
    LET n == ShiftCount(s)
    IN  FromBits([i \in 0..63 |-> IF i >= n THEN Bit(a, i - n) ELSE 0])

Shr64(a, s) ==
    LET n == ShiftCount(s)
    IN  FromBits([i \in 0..63 |-> IF i + n <= 63 THEN Bit(a, i + n) ELSE 0])

Sar64(a, s) ==
    LET n == ShiftCount(s)
    IN  FromBits([i \in 0..63 |->
                    IF i + n <= 63 THEN Bit(a, i + n) ELSE Bit(a, 63)])

\* Conversions: uint32(x), and the sign extensions uint64(int8(x)),
\* uint64(int16(x)), uint64(int32(x)).
Trunc32(a) == [i \in 1..8 |-> IF i <= 4 THEN a[i] ELSE 0]

SExt(a, nbytes) ==
    [i \in 1..8 |->
        IF i <= nbytes THEN a[i]
        ELSE IF a[nbytes] >= 128 THEN 255 ELSE 0]

(* ------------------------------------------------------------------ *)
(* Strings (package strings, package strconv)                           *)
(* ------------------------------------------------------------------ *)

Char(s, i) == SubSeq(s, i, i)

IsSpace(c) == c \in {" ", "\t"}

HasPrefix(s, p) == Len(s) >= Len(p) /\ SubSeq(s, 1, Len(p)) = p

RECURSIVE TrimLeft(_)
TrimLeft(s) ==
    IF Len(s) > 0 /\ IsSpace(Char(s, 1)) THEN TrimLeft(SubSeq(s, 2, Len(s)))
    ELSE s

RECURSIVE TrimRightSpace(_)
TrimRightSpace(s) ==
    IF Len(s) > 0 /\ IsSpace(Char(s, Len(s)))
    THEN TrimRightSpace(SubSeq(s, 1, Len(s) - 1))
    ELSE s

\* strings.TrimSpace
TrimSpace(s) == TrimRightSpace(TrimLeft(s))

\* strings.TrimRight(s, cutset) for a cutset of one character.
RECURSIVE TrimRight(_, _)
TrimRight(s, c) ==
    IF Len(s) > 0 /\ Char(s, Len(s)) = c
    THEN TrimRight(SubSeq(s, 1, Len(s) - 1), c)
    ELSE s

\* strings.Fields: the maximal runs of non-space characters, in order.
RECURSIVE FieldsFrom(_, _, _, _)
FieldsFrom(s, i, cur, acc) ==
    IF i > Len(s) THEN (IF cur = "" THEN acc ELSE Append(acc, cur))
    ELSE IF IsSpace(Char(s, i))
         THEN FieldsFrom(s, i + 1, "",
                         IF cur = "" THEN acc ELSE Append(acc, cur))
         ELSE FieldsFrom(s, i + 1, cur \o Char(s, i), acc)

Fields(s) == FieldsFrom(s, 1, "", <<>>)

\* strings.Split(s, sep) for a separator of one character.
RECURSIVE SplitFrom(_, _, _, _, _)
SplitFrom(s, sep, i, cur, acc) ==
    IF i > Len(s) THEN Append(acc, cur)
    ELSE IF Char(s, i) = sep
         THEN SplitFrom(s, sep, i + 1, "", Append(acc, cur))
         ELSE SplitFrom(s, sep, i + 1, cur \o Char(s, i), acc)

Split(s, sep) == SplitFrom(s, sep, 1, "", <<>>)

Digits == {"0", "1", "2", "3", "4", "5", "6", "7", "8", "9"}

DigitVal(c) ==
    CASE c = "0" -> 0 [] c = "1" -> 1 [] c = "2" -> 2 [] c = "3" -> 3
      [] c = "4" -> 4 [] c = "5" -> 5 [] c = "6" -> 6 [] c = "7" -> 7
      [] c = "8" -> 8 [] c = "9" -> 9

\* a * 10 + d for a word a and a digit d: the low 64 bits, and whether the
\* result reached 2^64.
MulAdd10(a, d) ==
    LET lo  == Lo(a) * 10 + d
        mid == Mid(a) * 10 + (lo \div 16777216)
        hi  == Hi(a) * 10 + (mid \div 16777216)
    IN  [over |-> hi >= 65536,
         val  |-> Limbs(lo % 16777216, mid % 16777216, hi % 65536)]

\* The magnitude of a string of decimal digits as an unsigned 64-bit value:
\* a syntax error on an empty string or a non-digit, a range error when the
\* value does not fit 64 bits.
RECURSIVE ParseDigits(_, _, _)
ParseDigits(s, i, acc) ==
    IF i > Len(s) THEN [err |-> "", val |-> acc]
    ELSE IF Char(s, i) \notin Digits THEN [err |-> "syntax", val |-> Zero64]
    ELSE Let(MulAdd10(acc, DigitVal(Char(s, i))),
             LAMBDA r : IF r.over THEN [err |-> "range", val |-> Zero64]
                        ELSE ParseDigits(s, i + 1, r.val))

\* A conversion that keeps the low byte of a number that does not fit 8
\* bits.
ParseUint8Truncating(s) ==
    IF s = "" THEN [err |-> "syntax", val |-> 0]
    ELSE Let(ParseDigits(s, 1, Zero64),
             LAMBDA r :
                IF r.err # "" THEN [err |-> r.err, val |-> 0]
                ELSE [err |-> "", val |-> r.val[1]])

\* strconv.ParseUint(s, 10, 8)
ParseUint8(s) ==
    IF s = "" THEN [err |-> "syntax", val |-> 0]
    ELSE Let(ParseDigits(s, 1, Zero64),
             LAMBDA r :
                IF r.err # "" THEN [err |-> r.err, val |-> 0]
                ELSE IF LtU(Nat2W(255), r.val) THEN [err |-> "range", val |-> 0]
                ELSE [err |-> "", val |-> r.val[1]])

MinInt64 == <<0, 0, 0, 0, 0, 0, 0, 128>>

\* strconv.ParseInt(s, 10, 64): an optional sign, then decimal digits; the
\* result as a two's-complement word.
ParseInt64(s) ==
    IF s = "" THEN [err |-> "syntax", val |-> Zero64]
    ELSE LET neg  == Char(s, 1) = "-"
             sgn  == Char(s, 1) \in {"+", "-"}
             body == IF sgn THEN SubSeq(s, 2, Len(s)) ELSE s
         IN  Let(IF body = "" THEN [err |-> "syntax", val |-> Zero64]
                 ELSE ParseDigits(body, 1, Zero64),
                 LAMBDA r :
                    IF r.err # "" THEN [err |-> r.err, val |-> Zero64]
                    ELSE IF ~neg /\ ~LtU(r.val, MinInt64)
                         THEN [err |-> "range", val |-> Zero64]
                    ELSE IF neg /\ LtU(MinInt64, r.val)
                         THEN [err |-> "range", val |-> Zero64]
                    ELSE [err |-> "",
                          val |-> IF neg THEN Neg64(r.val) ELSE r.val])

(* ------------------------------------------------------------------ *)
(* The decoder (parseRISCInstruction and its helpers)                    *)
(* ------------------------------------------------------------------ *)

\* RISCInstruction{}: the zero value of the instruction record.
NoInst ==
    [Opcode |-> "", Rd |-> 0, Rs1 |-> 0, Rs2 |-> 0,
     Imm |-> Zero64, Offset |-> Zero64]

RTypeOps == {"add", "sub", "and", "or", "xor", "sll", "srl", "sra", "slt", "sltu"}

ITypeOps == {"addi", "slli", "srli", "srai", "andi", "ori", "xori", "slti", "sltiu"}

UTypeOps == {"lui", "auipc"}

BranchOps == {"beq", "bne", "blt", "bge", "bltu", "bgeu"}

LoadOps == {"lw", "lh", "lb", "lwu", "lhu", "lbu"}

StoreOps == {"sw", "sh", "sb"}

QuantumOps == {"qinit", "qapply", "qmeasure", "qentangle"}

\* parseRegister: "x" followed by a decimal number that fits 8 bits and is
\* at most 31.
parseRegister(reg) ==
    IF ~HasPrefix(reg, "x") THEN [err |-> "invalid register format", val |-> 0]
    ELSE Let(ParseUint8(SubSeq(reg, 2, Len(reg))),
             LAMBDA r :
                IF r.err # "" THEN [err |-> "invalid register number", val |-> 0]
                ELSE IF r.val > 31
                     THEN [err |-> "register number out of range", val |-> 0]
                ELSE [err |-> "", val |-> r.val])

\* An immediate or offset operand: strconv.ParseInt, its error replaced by
\* the decoder's own.
parseImm(s, what) ==
    Let(ParseInt64(s),
        LAMBDA r : IF r.err # "" THEN [err |-> what, val |-> Zero64] ELSE r)

\* parseLoadStore: "offset(xN)".
parseLoadStore(arg) ==
    Let(Split(arg, "("),
        LAMBDA parts :
           IF Len(parts) # 2
           THEN [err |-> "invalid load/store format", val |-> 0, offset |-> Zero64]
           ELSE Let(parseImm(parts[1], "invalid offset value"),
                LAMBDA off :
                   IF off.err # ""
                   THEN [err |-> off.err, val |-> 0, offset |-> Zero64]
                   ELSE Let(parseRegister(TrimRight(parts[2], ")")),
                        LAMBDA r :
                           [err |-> r.err, val |-> r.val,
                            offset |-> IF r.err # "" THEN Zero64 ELSE off.val])))

ParseFail(e) == [err |-> e, inst |-> NoInst]

\* The decoder's operands are parsed in order and the first error is
\* returned; Mk builds the instruction from the parsed operands.
Decode2(r1, r2, Mk(_, _)) ==
    Let(r1, LAMBDA a :
        IF a.err # "" THEN ParseFail(a.err)
        ELSE Let(r2, LAMBDA b :
             IF b.err # "" THEN ParseFail(b.err)
             ELSE [err |-> "", inst |-> Mk(a, b)]))

Decode3(r1, r2, r3, Mk(_, _, _)) ==
    Let(r1, LAMBDA a :
        IF a.err # "" THEN ParseFail(a.err)
        ELSE Let(r2, LAMBDA b :
             IF b.err # "" THEN ParseFail(b.err)
             ELSE Let(r3, LAMBDA c :
                  IF c.err # "" THEN ParseFail(c.err)
                  ELSE [err |-> "", inst |-> Mk(a, b, c)])))

\* The switch of parseRISCInstruction on parts[0], parts being the fields
\* of the line (at least one).
DecodeFields(parts) ==
    LET op == parts[1]
        n  == Len(parts)
    IN
    IF op \in RTypeOps THEN
        IF n # 4 THEN ParseFail("invalid number of arguments")
        ELSE Decode3(parseRegister(parts[2]), parseRegister(parts[3]),
                     parseRegister(parts[4]),
                     LAMBDA rd, rs1, rs2 :
                        [NoInst EXCEPT !.Opcode = op, !.Rd = rd.val,
                                       !.Rs1 = rs1.val, !.Rs2 = rs2.val])
    ELSE IF op \in ITypeOps THEN
        IF n # 4 THEN ParseFail("invalid number of arguments")
        ELSE Decode3(parseRegister(parts[2]), parseRegister(parts[3]),
                     parseImm(parts[4], "invalid immediate value"),
                     LAMBDA rd, rs1, imm :
                        [NoInst EXCEPT !.Opcode = op, !.Rd = rd.val,
                                       !.Rs1 = rs1.val, !.Imm = imm.val])
    ELSE IF op \in UTypeOps THEN
        IF n # 3 THEN ParseFail("invalid number of arguments")
        ELSE Decode2(parseRegister(parts[2]),
                     parseImm(parts[3], "invalid immediate value"),
                     LAMBDA rd, imm :
                        [NoInst EXCEPT !.Opcode = op, !.Rd = rd.val,
                                       !.Imm = imm.val])
    ELSE IF op = "jal" THEN
        IF n # 3 THEN ParseFail("invalid number of arguments")
        ELSE Decode2(parseRegister(parts[2]),
                     parseImm(parts[3], "invalid offset value"),
                     LAMBDA rd, off :
                        [NoInst EXCEPT !.Opcode = op, !.Rd = rd.val,
                                       !.Offset = off.val])
    ELSE IF op = "jalr" THEN
        IF n # 4 THEN ParseFail("invalid number of arguments")
        ELSE Decode3(parseRegister(parts[2]), parseRegister(parts[3]),
                     parseImm(parts[4], "invalid offset value"),
                     LAMBDA rd, rs1, off :
                        [NoInst EXCEPT !.Opcode = op, !.Rd = rd.val,
                                       !.Rs1 = rs1.val, !.Offset = off.val])
    ELSE IF op \in BranchOps THEN
        IF n # 4 THEN ParseFail("invalid number of arguments")
        ELSE Decode3(parseRegister(parts[2]), parseRegister(parts[3]),
                     parseImm(parts[4], "invalid offset value"),
                     LAMBDA rs1, rs2, off :
                        [NoInst EXCEPT !.Opcode = op, !.Rs1 = rs1.val,
                                       !.Rs2 = rs2.val, !.Offset = off.val])
    ELSE IF op \in LoadOps THEN
        IF n # 3 THEN ParseFail("invalid number of arguments")
        ELSE Decode2(parseRegister(parts[2]), parseLoadStore(parts[3]),
                     LAMBDA rd, ls :
                        [NoInst EXCEPT !.Opcode = op, !.Rd = rd.val,
                                       !.Rs1 = ls.val, !.Offset = ls.offset])
    ELSE IF op \in StoreOps THEN
        IF n # 3 THEN ParseFail("invalid number of arguments")
        ELSE Decode2(parseRegister(parts[2]), parseLoadStore(parts[3]),
                     LAMBDA rs2, ls :
                        [NoInst EXCEPT !.Opcode = op, !.Rs1 = ls.val,
                                       !.Rs2 = rs2.val, !.Offset = ls.offset])
    ELSE ParseFail("unknown instruction")

parseRISCInstruction(instruction) ==
    Let(Fields(instruction),
        LAMBDA parts :
           IF Len(parts) = 0 THEN ParseFail("empty instruction")
           ELSE DecodeFields(parts))

(* ------------------------------------------------------------------ *)
(* Memory                                                               *)
(* ------------------------------------------------------------------ *)

\* make([]byte, 1024*1024)
MemSize == 1024 * 1024

\* A memory is the function from the addresses of its non-zero bytes to
\* those bytes; every other byte of the buffer is 0, as make() leaves it.
EmptyMemory == <<>>

MemRead(mem, a) == IF a \in DOMAIN mem THEN mem[a] ELSE 0

\* A store that leaves the memory as it was.
MemWriteDropped(mem, a, b) == mem

MemWrite(mem, a, b) ==
    LET dom == IF b = 0 THEN DOMAIN mem \ {a} ELSE DOMAIN mem \cup {a}
    IN  [x \in dom |-> IF x = a THEN b ELSE mem[x]]

\* Whether indexing the buffer at the address succeeds (Go panics with
\* "index out of range" otherwise).
InBuffer(addr) == LtU(addr, Nat2W(MemSize))

\* The little-endian value of the bytes at the addresses, read in order;
\* panic when one of them is outside the buffer.
ReadLE(mem, addrs) ==
    IF \E i \in 1..Len(addrs) : ~InBuffer(addrs[i])
    THEN [panic |-> TRUE, val |-> Zero64]
    ELSE [panic |-> FALSE,
          val |-> [i \in 1..8 |->
                     IF i <= Len(addrs) THEN MemRead(mem, W2Nat(addrs[i]))
                     ELSE 0]]

\* The bytes written most significant first: val[w] at the first address,
\* val[1] at the last.
RECURSIVE WriteBE(_, _, _, _)
WriteBE(mem, addrs, val, i) ==
    IF i > Len(addrs) THEN [panic |-> FALSE, mem |-> mem]
    ELSE IF ~InBuffer(addrs[i]) THEN [panic |-> TRUE, mem |-> mem]
    ELSE Let(MemWrite(mem, W2Nat(addrs[i]), val[Len(addrs) + 1 - i]),
             LAMBDA m : WriteBE(m, addrs, val, i + 1))

\* The bytes val[1], val[2], ... written at the addresses in order; the
\* write stops (panic) at the first address outside the buffer.
RECURSIVE WriteLE(_, _, _, _)
WriteLE(mem, addrs, val, i) ==
    IF i > Len(addrs) THEN [panic |-> FALSE, mem |-> mem]
    ELSE IF ~InBuffer(addrs[i]) THEN [panic |-> TRUE, mem |-> mem]
    ELSE Let(MemWrite(mem, W2Nat(addrs[i]), val[i]),
             LAMBDA m : WriteLE(m, addrs, val, i + 1))

(* ------------------------------------------------------------------ *)
(* The classical engine (QuantumRISCVMachine)                            *)
(* ------------------------------------------------------------------ *)

\* [32]uint64{}
ZeroRegisters == [r \in 0..31 |-> Zero64]

OutOfBounds == "memory access out of bounds"

\* The number of bytes a load or store opcode accesses.
AccessWidth(op) ==
    CASE op \in {"lw", "lwu", "sw"} -> 4
      [] op \in {"lh", "lhu", "sh"} -> 2
      [] op \in {"lb", "lbu", "sb"} -> 1

\* The addresses addr, addr+1, ... of an access, each computed in uint64.
Addrs64(addr, w) == [i \in 1..w |-> Add64(addr, Nat2W(i - 1))]

\* The engine's bounds check: addr+4 > len, addr+2 > len (the sum in
\* uint64), and addr >= len for a byte.
BoundsFail(op, addr) ==
    LET w == AccessWidth(op)
    IN  IF w = 1 THEN ~LtU(addr, Nat2W(MemSize))
        ELSE LtU(Nat2W(MemSize), Add64(addr, Nat2W(w)))

\* The value a load writes to rd from the raw little-endian bytes: lh and
\* lb convert through int16 and int8; lw, lwu, lhu and lbu only widen.
LoadValue(op, raw) ==
    CASE op = "lh" -> SExt(raw, 2)
      [] op = "lb" -> SExt(raw, 1)
      [] OTHER     -> raw

\* The branch conditions.
BranchCond(op, a, b) ==
    CASE op = "beq"  -> a = b
      [] op = "bne"  -> a # b
      [] op = "blt"  -> LtS(a, b)
      [] op = "bge"  -> ~LtS(a, b)
      [] op = "bltu" -> LtU(a, b)
      [] op = "bgeu" -> ~LtU(a, b)

BoolWord(b) == IF b THEN One64 ELSE Zero64

\* The register-register results.
RTypeResult(op, a, b) ==
    CASE op = "add"  -> Add64(a, b)
      [] op = "sub"  -> Sub64(a, b)
      [] op = "and"  -> And64(a, b)
      [] op = "or"   -> Or64(a, b)
      [] op = "xor"  -> Xor64(a, b)
      [] op = "sll"  -> Shl64(a, b)
      [] op = "srl"  -> Shr64(a, b)
      [] op = "sra"  -> Sar64(a, b)
      [] op = "slt"  -> BoolWord(LtS(a, b))
      [] op = "sltu" -> BoolWord(LtU(a, b))

\* The register-immediate results of the classical engine.  srai shifts by
\* the signed immediate itself: Go panics on a negative shift count.
ITypeResult(op, a, imm) ==
    CASE op = "addi"  -> [panic |-> FALSE, val |-> Add64(a, imm)]
      [] op = "slli"  -> [panic |-> FALSE, val |-> Shl64(a, imm)]
      [] op = "srli"  -> [panic |-> FALSE, val |-> Shr64(a, imm)]
      [] op = "srai"  -> IF IsNeg(imm) THEN [panic |-> TRUE, val |-> Zero64]
                         ELSE [panic |-> FALSE, val |-> Sar64(a, imm)]
      [] op = "andi"  -> [panic |-> FALSE, val |-> And64(a, imm)]
      [] op = "ori"   -> [panic |-> FALSE, val |-> Or64(a, imm)]
      [] op = "xori"  -> [panic |-> FALSE, val |-> Xor64(a, imm)]
      [] op = "slti"  -> [panic |-> FALSE, val |-> BoolWord(LtS(a, imm))]
      [] op = "sltiu" -> [panic |-> FALSE, val |-> BoolWord(LtU(a, imm))]

\* The link value jal and jalr write to rd.
LinkValue(pcv) == Add64(pcv, Nat2W(4))

\* A write to a register of the classical engine: m.registers[rd] = v.
WriteReg(regs, rd, v) == [regs EXCEPT ![rd] = v]

\* The error returned after rd is cleared, as by a caller that stores the
\* zero value an access yields beside its error.
AccessErrorZeroed(same, inst) ==
    [same EXCEPT !.err = OutOfBounds, !.registers[inst.Rd] = Zero64]

\* return fmt.Errorf("memory access out of bounds"), before any read or
\* write.
AccessError(same, inst) == [same EXCEPT !.err = OutOfBounds]

\* executeRISCInstruction: the registers, memory and pc it leaves, the
\* error it returns ("" for nil), and whether it panicked.
executeRISCInstruction(regs, mem, pcv, inst) ==
    LET op   == inst.Opcode
        a    == regs[inst.Rs1]
        b    == regs[inst.Rs2]
        same == [registers |-> regs, memory |-> mem, pc |-> pcv,
                 err |-> "", panic |-> FALSE]
        addr == Add64(a, inst.Offset)
    IN
    IF op \in RTypeOps THEN
        [same EXCEPT !.registers = WriteReg(regs, inst.Rd, RTypeResult(op, a, b))]
    ELSE IF op \in ITypeOps THEN
        Let(ITypeResult(op, a, inst.Imm),
            LAMBDA r :
               IF r.panic THEN [same EXCEPT !.panic = TRUE]
               ELSE [same EXCEPT !.registers = WriteReg(regs, inst.Rd, r.val)])
    ELSE IF op = "lui" THEN
        [same EXCEPT !.registers =
            WriteReg(regs, inst.Rd, Shl64(inst.Imm, Nat2W(12)))]
    ELSE IF op = "auipc" THEN
        [same EXCEPT !.registers =
            WriteReg(regs, inst.Rd, Add64(pcv, Shl64(inst.Imm, Nat2W(12))))]
    ELSE IF op = "jal" THEN
        [same EXCEPT !.registers = WriteReg(regs, inst.Rd, LinkValue(pcv)),
                     !.pc = Trunc32(Add64(pcv, inst.Offset))]
    ELSE IF op = "jalr" THEN
        [same EXCEPT !.registers = WriteReg(regs, inst.Rd, LinkValue(pcv)),
                     !.pc = Trunc32(Add64(a, inst.Offset))]
    ELSE IF op \in BranchOps THEN
        IF BranchCond(op, a, b)
        THEN [same EXCEPT !.pc = Trunc32(Add64(pcv, inst.Offset))]
        ELSE same
    ELSE IF op \in LoadOps THEN
        IF BoundsFail(op, addr) THEN AccessError(same, inst)
        ELSE Let(ReadLE(mem, Addrs64(addr, AccessWidth(op))),
                 LAMBDA r :
                    IF r.panic THEN [same EXCEPT !.panic = TRUE]
                    ELSE [same EXCEPT !.registers =
                             WriteReg(regs, inst.Rd, LoadValue(op, r.val))])
    ELSE IF op \in StoreOps THEN
        IF BoundsFail(op, addr) THEN AccessError(same, inst)
        ELSE Let(WriteLE(mem, Addrs64(addr, AccessWidth(op)), b, 1),
                 LAMBDA r : [same EXCEPT !.memory = r.mem, !.panic = r.panic])
    ELSE [same EXCEPT !.err = "unknown RISC-V instruction"]

(* ------------------------------------------------------------------ *)
(* State                                                                *)
(* ------------------------------------------------------------------ *)

VARIABLES
    \* QuantumRISCVMachine
    registers,      \* [32]uint64
    memory,         \* []byte
    riscProgram,    \* []RISCInstruction
    pc,             \* uint32
    \* the caller of the classical engine
    vmMode,         \* "idle", "running" (inside ExecuteRISCProgram), "panic"
    vmCmd,          \* the last command issued: "none", "load", "riscv", "run"
    vmErr,          \* the error the last command returned ("" for nil)
    vmArg,          \* the text the last command was given: the lines of
                    \* the file, or the one instruction
    exec,           \* the instruction the current or last command executed
                    \* last, with the state before it
    steps,          \* instructions executed by the current run
    calls           \* commands issued

VARIABLES
    \* HostQuantumMachine
    hRegisters,     \* [128]uint64
    hQuantumRegs,   \* [128]*HostQuantumState
    hMemory,        \* []byte
    \* executeHostQuantumFile and the caller of the host engine
    hProgram,       \* program := machine.GetRISCProgram()
    hPc,            \* pc := uint32(0)
    hMode,          \* "idle", "running" (inside executeHostQuantumFile), "panic"
    hCmd,           \* the last command issued: "none", "file", "quantum"
    hErr,           \* the error the last command returned ("" for nil)
    hArg,           \* the lines of the file the last command was given
    hExec,          \* the last instruction executed, with the state before it
    hSteps,         \* instructions executed by the current run
    hCalls          \* commands issued

vmVars == <<registers, memory, riscProgram, pc, vmMode, vmCmd, vmErr, vmArg,
            exec, steps, calls>>

VARIABLES
    \* a client of the monolithic backend
    qs,             \* the *QuantumState the client holds
    qsMode,         \* "idle", "panic"
    qsExec,         \* the last Apply, with the state before it
    qsCalls         \* calls made

hostVars == <<hRegisters, hQuantumRegs, hMemory, hProgram, hPc, hMode, hCmd,
              hErr, hArg, hExec, hSteps, hCalls>>

VARIABLES
    \* the quantum state of the QuantumRISCVMachine and the shell around it
    qstate,         \* m.state, a *QuantumState
    shell,          \* the shell that holds the machine and its qubit count
    useHost,        \* Handler.useHost
    qExec           \* the last Instruction executed, with the state before

gateVars == <<qs, qsMode, qsExec, qsCalls>>

shellVars == <<qstate, shell, useHost, qExec>>

vars == <<vmVars, hostVars, gateVars, shellVars>>

NoExec ==
    [valid |-> FALSE, inRun |-> FALSE, inst |-> NoInst, pc0 |-> Zero64,
     regs0 |-> ZeroRegisters, mem0 |-> EmptyMemory, err |-> "", panic |-> FALSE]

\* NewQuantumRISCVMachine
InitVM ==
    /\ registers = ZeroRegisters
    /\ memory = EmptyMemory
    /\ riscProgram = <<>>
    /\ pc = Zero64
    /\ vmMode = "idle"
    /\ vmCmd = "none"
    /\ vmErr = ""
    /\ vmArg = <<>>
    /\ exec = NoExec
    /\ steps = 0
    /\ calls = 0

(* ------------------------------------------------------------------ *)
(* Operations of the classical engine                                   *)
(* ------------------------------------------------------------------ *)

\* What ioutil.ReadFile finds under a file name: the lines of the file's
\* content, or no readable file.
TextFile(lines) == [readable |-> TRUE, lines |-> lines]

MissingFile == [readable |-> FALSE, lines |-> <<>>]

\* The loop of LoadRISCProgram over the lines from line i on, with prog the
\* instructions appended so far: the error returned and the program the
\* machine is left with.
RECURSIVE LoadLines(_, _, _)
LoadLines(lines, i, prog) ==
    IF i > Len(lines) THEN [err |-> "", prog |-> prog]
    ELSE LET line == TrimSpace(lines[i])
         IN  IF line = "" \/ HasPrefix(line, "#")
             THEN LoadLines(lines, i + 1, prog)
             ELSE Let(parseRISCInstruction(line),
                      LAMBDA r :
                         IF r.err # ""
                         THEN [err |-> "error parsing instruction",
                               prog |-> prog]
                         ELSE LoadLines(lines, i + 1, Append(prog, r.inst)))

\* LoadRISCProgram(filename): a file that cannot be read leaves the loaded
\* program as it was; otherwise the program is emptied and the lines are
\* decoded and appended one by one.
LoadResult(file, prog) ==
    IF ~file.readable THEN [err |-> "error reading file", prog |-> prog]
    ELSE LoadLines(file.lines, 1, <<>>)

LoadRISCProgram(file) ==
    /\ vmMode = "idle"
    /\ \E r \in {LoadResult(file, riscProgram)} :
           /\ riscProgram' = r.prog
           /\ vmErr' = r.err
    /\ vmCmd' = "load"
    /\ vmArg' = file.lines
    /\ exec' = NoExec
    /\ calls' = calls + 1
    /\ UNCHANGED <<registers, memory, pc, vmMode, steps>>
    /\ UNCHANGED <<hostVars, gateVars, shellVars>>

\* The record of one executed instruction for the history variable.
ExecRecord(inst, inRun, r) ==
    [valid |-> TRUE, inRun |-> inRun, inst |-> inst, pc0 |-> pc,
     regs0 |-> registers, mem0 |-> memory, err |-> r.err, panic |-> r.panic]

\* ExecuteRISCInstruction(instruction): decode, then execute.
ExecuteRISCInstruction(instruction) ==
    /\ vmMode = "idle"
    /\ vmCmd' = "riscv"
    /\ vmArg' = <<instruction>>
    /\ calls' = calls + 1
    /\ \E p \in {parseRISCInstruction(instruction)} :
           IF p.err # ""
           THEN /\ vmErr' = p.err
                /\ exec' = NoExec
                /\ UNCHANGED <<registers, memory, pc, vmMode>>
           ELSE \E r \in {executeRISCInstruction(registers, memory, pc, p.inst)} :
                    /\ registers' = r.registers
                    /\ memory' = r.memory
                    /\ pc' = r.pc
                    /\ vmErr' = r.err
                    /\ vmMode' = IF r.panic THEN "panic" ELSE "idle"
                    /\ exec' = ExecRecord(p.inst, FALSE, r)
    /\ UNCHANGED <<riscProgram, steps>>
    /\ UNCHANGED <<hostVars, gateVars, shellVars>>

\* ExecuteRISCProgram, entry: m.pc = 0.
ExecuteRISCProgram ==
    /\ vmMode = "idle"
    /\ pc' = Zero64
    /\ vmMode' = "running"
    /\ vmCmd' = "run"
    /\ vmErr' = ""
    /\ steps' = 0
    /\ exec' = NoExec
    /\ calls' = calls + 1
    /\ UNCHANGED <<registers, memory, riscProgram, vmArg>>
    /\ UNCHANGED <<hostVars, gateVars, shellVars>>

\* The loop condition m.pc < uint32(len(m.riscProgram)).
PcInProgram(pcv, prog) == LtU(pcv, Nat2W(Len(prog)))

\* strconv's decimal form of a number, as %d prints it.
RECURSIVE FormatNat(_)
FormatNat(n) ==
    IF n < 10 THEN SubSeq("0123456789", n + 1, n + 1)
    ELSE FormatNat(n \div 10) \o SubSeq("0123456789", (n % 10) + 1, (n % 10) + 1)

\* A program counter that is left as it is.
PcKept(pcv) == pcv

\* m.pc++ (uint32).
IncPc(pcv) == Trunc32(Add64(pcv, One64))

\* An error that leaves out the index of the instruction.
RunErrorBare(pcv, err) == err

\* fmt.Errorf("error at PC %d: %v", m.pc, err); m.pc is below the length
\* of the program here.
RunError(pcv, err) == "error at PC " \o FormatNat(W2Nat(pcv)) \o ": " \o err

\* ExecuteRISCProgram, one iteration of its loop: execute the instruction
\* at pc; on an error return it, otherwise m.pc++.
RunStep ==
    /\ vmMode = "running"
    /\ PcInProgram(pc, riscProgram)
    /\ steps < MaxSteps
    /\ \E inst \in {riscProgram[W2Nat(pc) + 1]} :
       \E r \in {executeRISCInstruction(registers, memory, pc, inst)} :
           /\ registers' = r.registers
           /\ memory' = r.memory
           /\ exec' = ExecRecord(inst, TRUE, r)
           /\ IF r.panic
              THEN /\ vmMode' = "panic"
                   /\ pc' = r.pc
                   /\ vmErr' = ""
              ELSE IF r.err # ""
              THEN /\ vmMode' = "idle"
                   /\ pc' = r.pc
                   /\ vmErr' = RunError(r.pc, r.err)
              ELSE /\ vmMode' = "running"
                   /\ pc' = IncPc(r.pc)
                   /\ vmErr' = ""
    /\ steps' = steps + 1
    /\ UNCHANGED <<riscProgram, vmCmd, vmArg, calls>>
    /\ UNCHANGED <<hostVars, gateVars, shellVars>>

\* ExecuteRISCProgram, exit of its loop: return nil.
RunReturn ==
    /\ vmMode = "running"
    /\ ~PcInProgram(pc, riscProgram)
    /\ vmMode' = "idle"
    /\ vmErr' = ""
    /\ UNCHANGED <<registers, memory, riscProgram, pc, vmCmd, vmArg, exec, steps,
                   calls>>
    /\ UNCHANGED <<hostVars, gateVars, shellVars>>

(* ------------------------------------------------------------------ *)
(* Natural numbers beyond 32 bits                                       *)
(* ------------------------------------------------------------------ *)

\* A natural number as its digits in base 2^13, the least significant
\* first and the most significant not 0; <<>> is 0.
Radix == 2^13

RECURSIVE BTrim(_)
BTrim(a) ==
    IF a = <<>> THEN a
    ELSE IF a[Len(a)] = 0 THEN BTrim(SubSeq(a, 1, Len(a) - 1))
    ELSE a

BDigit(a, i) == IF i \in 1..Len(a) THEN a[i] ELSE 0

\* The digits of the number whose digit i is d[i], the d[i] being any
\* integers, with the carry c into digit i.
RECURSIVE BCarry(_, _, _)
BCarry(d, i, c) ==
    IF i > Len(d)
    THEN IF c = 0 THEN <<>> ELSE <<c % Radix>> \o BCarry(d, i, c \div Radix)
    ELSE <<(d[i] + c) % Radix>> \o BCarry(d, i + 1, (d[i] + c) \div Radix)

BMaxLen(a, b) == IF Len(a) >= Len(b) THEN Len(a) ELSE Len(b)

BAdd(a, b) ==
    BTrim(BCarry([i \in 1..BMaxLen(a, b) |-> BDigit(a, i) + BDigit(b, i)], 1, 0))

\* a - b for a >= b.
BSub(a, b) ==
    BTrim(BCarry([i \in 1..BMaxLen(a, b) |-> BDigit(a, i) - BDigit(b, i)], 1, 0))

\* -1, 0 or 1 as a < b, a = b or a > b, comparing from digit i down.
RECURSIVE BCmpFrom(_, _, _)
BCmpFrom(a, b, i) ==
    IF i = 0 THEN 0
    ELSE IF a[i] < b[i] THEN -1
    ELSE IF a[i] > b[i] THEN 1
    ELSE BCmpFrom(a, b, i - 1)

BCmp(a, b) ==
    IF Len(a) < Len(b) THEN -1
    ELSE IF Len(a) > Len(b) THEN 1
    ELSE BCmpFrom(a, b, Len(a))

\* The sum of the products a[i] * b[k - i + 1] from i on.
RECURSIVE BColumn(_, _, _, _)
BColumn(a, b, k, i) ==
    IF i > Len(a) THEN 0
    ELSE BDigit(a, i) * BDigit(b, k - i + 1) + BColumn(a, b, k, i + 1)

BMul(a, b) ==
    IF a = <<>> \/ b = <<>> THEN <<>>
    ELSE BTrim(BCarry([k \in 1..(Len(a) + Len(b)) |-> BColumn(a, b, k, 1)], 1, 0))

\* a * 2^n
BShl(a, n) ==
    IF a = <<>> THEN a
    ELSE [i \in 1..(n \div 13) |-> 0]
         \o BTrim(BCarry([i \in 1..Len(a) |-> a[i] * 2^(n % 13)], 1, 0))

\* a \div 2^n
BShr(a, n) ==
    IF Len(a) <= n \div 13 THEN <<>>
    ELSE Let(SubSeq(a, (n \div 13) + 1, Len(a)),
             LAMBDA h :
                BTrim([i \in 1..Len(h) |->
                          (h[i] \div 2^(n % 13))
                          + (BDigit(h, i + 1) % 2^(n % 13)) * 2^(13 - (n % 13))]))

\* The number of bits of a.
BBitLen(a) ==
    IF a = <<>> THEN 0
    ELSE 13 * (Len(a) - 1)
         + (CHOOSE n \in 1..13 : 2^(n - 1) <= a[Len(a)] /\ a[Len(a)] < 2^n)

BOdd(a) == a # <<>> /\ a[1] % 2 = 1

BOne == <<1>>

\* The largest q with q * q <= n among the numbers that agree with q
\* above bit b and are multiples of 2^lo: bits b down to lo are decided
\* one by one.
RECURSIVE BSqrtBits(_, _, _, _)
BSqrtBits(n, q, b, lo) ==
    IF b < lo THEN q
    ELSE Let(BAdd(q, BShl(BOne, b)),
             LAMBDA t : IF BCmp(BMul(t, t), n) <= 0
                        THEN BSqrtBits(n, t, b - 1, lo)
                        ELSE BSqrtBits(n, q, b - 1, lo))

\* The same for bits b down to 0, eight bits at a time.
RECURSIVE BSqrtFrom(_, _, _)
BSqrtFrom(n, q, b) ==
    IF b < 0 THEN q
    ELSE Let(BSqrtBits(n, q, b, IF b >= 7 THEN b - 7 ELSE 0),
             LAMBDA t : BSqrtFrom(n, t, b - 8))

\* The largest q with q * d <= n among the numbers that agree with q
\* above bit b and are multiples of 2^lo.
RECURSIVE BDivBits(_, _, _, _, _)
BDivBits(n, d, q, b, lo) ==
    IF b < lo THEN q
    ELSE Let(BAdd(q, BShl(BOne, b)),
             LAMBDA t : IF BCmp(BMul(t, d), n) <= 0
                        THEN BDivBits(n, d, t, b - 1, lo)
                        ELSE BDivBits(n, d, q, b - 1, lo))

\* The same for bits b down to 0, eight bits at a time.
RECURSIVE BDivFrom(_, _, _, _)
BDivFrom(n, d, q, b) ==
    IF b < 0 THEN q
    ELSE Let(BDivBits(n, d, q, b, IF b >= 7 THEN b - 7 ELSE 0),
             LAMBDA t : BDivFrom(n, d, t, b - 8))

(* ------------------------------------------------------------------ *)
(* float64                                                              *)
(* ------------------------------------------------------------------ *)

\* A float64 of IEEE 754: a number (-1)^s * m * 2^e with m of exactly 53
\* bits, or m = 0 for the zero of sign s; or an infinity of sign s; or a
\* NaN.  Operations round to nearest, ties to even, one operation at a
\* time (no fused multiply-add).  Subnormal numbers and overflow are not
\* represented: the amplitudes stay far from both.
FNum(s, m, e) == [c |-> "num", s |-> s, m |-> m, e |-> e]

FZero(s) == FNum(s, <<>>, 0)

FInf(s) == [c |-> "inf", s |-> s, m |-> <<>>, e |-> 0]

FNaN == [c |-> "nan", s |-> 0, m |-> <<>>, e |-> 0]

\* 1.0
FOne == FNum(0, <<0, 0, 0, 0, 1>>, -52)

FIsZero(x) == x.c = "num" /\ x.m = <<>>

FSignXor(x, y) == IF x.s = y.s THEN 0 ELSE 1

\* The float64 nearest to (-1)^s * (n + f) * 2^e, where f is 0 when
\* sticky is false and lies strictly between 0 and 1 when it is true; n
\* has more than 54 bits when sticky is true.
FRound(s, n, e, sticky) ==
    IF n = <<>> THEN FZero(s)
    ELSE Let(BBitLen(n),
             LAMBDA len :
               IF len <= 53 THEN FNum(s, BShl(n, 53 - len), e - (53 - len))
               ELSE Let(BShr(n, len - 53),
                        LAMBDA m0 :
                          Let(BCmp(BSub(n, BShl(m0, len - 53)),
                                   BShl(BOne, len - 54)),
                              LAMBDA half :
                                IF half < 0 \/ (half = 0 /\ ~sticky /\ ~BOdd(m0))
                                THEN FNum(s, m0, e + (len - 53))
                                ELSE Let(BAdd(m0, BOne),
                                         LAMBDA m1 :
                                           IF BBitLen(m1) = 54
                                           THEN FNum(s, BShr(m1, 1),
                                                     e + (len - 53) + 1)
                                           ELSE FNum(s, m1, e + (len - 53))))))

\* x * y
FMul(x, y) ==
    IF x.c = "nan" \/ y.c = "nan" THEN FNaN
    ELSE IF x.c = "inf" \/ y.c = "inf"
         THEN IF FIsZero(x) \/ FIsZero(y) THEN FNaN ELSE FInf(FSignXor(x, y))
    ELSE IF FIsZero(x) \/ FIsZero(y) THEN FZero(FSignXor(x, y))
    ELSE FRound(FSignXor(x, y), BMul(x.m, y.m), x.e + y.e, FALSE)

\* The sum of two numbers that are not zero, with the exponent d of the
\* smaller one.
FAddNum(x, y, d) ==
    Let(<<BShl(x.m, x.e - d), BShl(y.m, y.e - d)>>,
        LAMBDA n :
          IF x.s = y.s THEN FRound(x.s, BAdd(n[1], n[2]), d, FALSE)
          ELSE Let(BCmp(n[1], n[2]),
                   LAMBDA cmp :
                     IF cmp = 0 THEN FZero(0)
                     ELSE IF cmp > 0 THEN FRound(x.s, BSub(n[1], n[2]), d, FALSE)
                     ELSE FRound(y.s, BSub(n[2], n[1]), d, FALSE)))

\* x + y
FAdd(x, y) ==
    IF x.c = "nan" \/ y.c = "nan" THEN FNaN
    ELSE IF x.c = "inf"
         THEN IF y.c = "inf" /\ x.s # y.s THEN FNaN ELSE x
    ELSE IF y.c = "inf" THEN y
    ELSE IF FIsZero(x) /\ FIsZero(y)
         THEN FZero(IF x.s = 1 /\ y.s = 1 THEN 1 ELSE 0)
    ELSE IF FIsZero(x) THEN y
    ELSE IF FIsZero(y) THEN x
    ELSE IF x.e - y.e > 64 THEN x
    ELSE IF y.e - x.e > 64 THEN y
    ELSE FAddNum(x, y, IF x.e <= y.e THEN x.e ELSE y.e)

\* -x
FNeg(x) == IF x.c = "nan" THEN x ELSE [x EXCEPT !.s = 1 - x.s]

\* x - y
FSub(x, y) == FAdd(x, FNeg(y))

\* math.Sqrt(x)
FSqrt(x) ==
    IF x.c = "nan" THEN FNaN
    ELSE IF FIsZero(x) THEN x
    ELSE IF x.s = 1 THEN FNaN
    ELSE IF x.c = "inf" THEN x
    ELSE Let(IF x.e % 2 = 0 THEN 58 ELSE 57,
             LAMBDA k :
               Let(BShl(x.m, k),
                   LAMBDA n :
                     Let(BSqrtFrom(n, <<>>, 56),
                         LAMBDA r : FRound(0, r, (x.e - k) \div 2,
                                           BMul(r, r) # n))))

\* x / y
FDiv(x, y) ==
    IF x.c = "nan" \/ y.c = "nan" THEN FNaN
    ELSE IF x.c = "inf"
         THEN IF y.c = "inf" THEN FNaN ELSE FInf(FSignXor(x, y))
    ELSE IF y.c = "inf" THEN FZero(FSignXor(x, y))
    ELSE IF FIsZero(y)
         THEN IF FIsZero(x) THEN FNaN ELSE FInf(FSignXor(x, y))
    ELSE IF FIsZero(x) THEN FZero(FSignXor(x, y))
    ELSE Let(BShl(x.m, 57),
             LAMBDA n :
               Let(BDivFrom(n, y.m, <<>>, 58),
                   LAMBDA q : FRound(FSignXor(x, y), q, x.e - 57 - y.e,
                                     BMul(q, y.m) # n)))

\* x > y
FGreater(x, y) ==
    Let(FSub(x, y), LAMBDA d : d.c # "nan" /\ d.s = 0 /\ ~FIsZero(d))

\* x == y
FEqual(x, y) ==
    /\ x.c # "nan" /\ y.c # "nan"
    /\ x = y \/ (FIsZero(x) /\ FIsZero(y))

(* ------------------------------------------------------------------ *)
(* complex128                                                           *)
(* ------------------------------------------------------------------ *)

\* A complex128: two float64.
Complex(re, im) == [re |-> re, im |-> im]

CZero == Complex(FZero(0), FZero(0))

COne == Complex(FOne, FZero(0))

\* The constants 1i and -1i.
CI == Complex(FZero(0), FOne)

CNegI == Complex(FZero(0), FNeg(FOne))

\* The constant 1 / math.Sqrt2 as a float64: 0.7071067811865476.
InvSqrt2 == FNum(0, <<7117, 5113, 1945, 3393, 1>>, -53)

\* math.Sin(math.Pi / 4) as a float64: 0.7071067811865475.
SinPi4 == FNum(0, <<7116, 5113, 1945, 3393, 1>>, -53)

\* cmplx.Exp(1i * math.Pi / 4): complex(r*c, r*s) with r = math.Exp(0) = 1
\* and s, c = math.Sincos(math.Pi / 4).
ExpIPi4 == Complex(FMul(FOne, InvSqrt2), FMul(FOne, SinPi4))

\* x + y, -x, x - y and x * y on complex128, as the compiler expands
\* them into operations on float64.
CAdd(x, y) == Complex(FAdd(x.re, y.re), FAdd(x.im, y.im))

CNeg(x) == Complex(FNeg(x.re), FNeg(x.im))

CSub(x, y) == Complex(FSub(x.re, y.re), FSub(x.im, y.im))

CMul(x, y) ==
    Complex(FSub(FMul(x.re, y.re), FMul(x.im, y.im)),
            FAdd(FMul(x.re, y.im), FMul(x.im, y.re)))

\* cmplx.Conj(x)
Conj(x) == Complex(x.re, FNeg(x.im))

\* x == y on complex128.
CEqual(x, y) == FEqual(x.re, y.re) /\ FEqual(x.im, y.im)

\* real(amp * cmplx.Conj(amp))
NormSq(amp) == CMul(amp, Conj(amp)).re

\* The loop sum += real(amp * cmplx.Conj(amp)) from amplitude i on.
RECURSIVE NormSum(_, _, _)
NormSum(amps, i, sum) ==
    IF i > Len(amps) THEN sum
    ELSE Let(FAdd(sum, NormSq(amps[i])),
             LAMBDA t : NormSum(amps, i + 1, t))

\* Every amplitude times complex(norm, 0), norm being 1.0 / math.Sqrt(sum).
Scaled(amps) ==
    Let(Complex(FDiv(FOne, FSqrt(NormSum(amps, 1, FZero(0)))), FZero(0)),
        LAMBDA norm : [i \in 1..Len(amps) |-> CMul(amps[i], norm)])

(* ------------------------------------------------------------------ *)
(* The host engine (HostQuantumMachine)                                  *)
(* ------------------------------------------------------------------ *)

\* NewHostQuantumState: make() leaves every amplitude 0.  Amplitude i of
\* the Go slice is amplitudes[i + 1].
NewHostQuantumState(numQubits) ==
    [amplitudes |-> [i \in 1..(2^numQubits) |-> CZero], numQubits |-> numQubits]

\* A nil *HostQuantumState.
NilState == [amplitudes |-> <<>>, numQubits |-> -1]

\* normalizeHostState
normalizeHostState(state) ==
    [state EXCEPT !.amplitudes = Scaled(state.amplitudes)]

\* applyHostGate
applyHostGate(gateType, state) ==
    LET amp == state.amplitudes
        a   == amp[1]
        b   == amp[2]
        new ==
          CASE gateType = 0 -> [amp EXCEPT ![1] = b, ![2] = a]
            [] gateType = 1 -> [amp EXCEPT ![1] = CMul(CNegI, b),
                                           ![2] = CMul(CI, a)]
            [] gateType = 2 -> [amp EXCEPT ![2] = CNeg(b)]
            [] gateType = 3 ->
                  [amp EXCEPT ![1] = CMul(Complex(InvSqrt2, FZero(0)), CAdd(a, b)),
                              ![2] = CMul(Complex(InvSqrt2, FZero(0)), CSub(a, b))]
            [] gateType = 4 -> [amp EXCEPT ![2] = CMul(b, CI)]
            [] gateType = 5 -> [amp EXCEPT ![2] = CMul(b, ExpIPi4)]
            [] gateType = 6 -> IF state.numQubits = 2
                               THEN [amp EXCEPT ![3] = amp[4], ![4] = amp[3]]
                               ELSE amp
            [] OTHER -> amp
    IN  normalizeHostState([state EXCEPT !.amplitudes = new])

\* measureHostState: 0 when p0 > p1, else 1.
measureHostState(state) ==
    IF FGreater(NormSq(state.amplitudes[1]), NormSq(state.amplitudes[2]))
    THEN Zero64 ELSE One64

\* The two amplitudes written at indexes 0 and 1 instead of 0 and 3.
entangleHostStatesAdjacent(state1, state2, result) ==
    [result EXCEPT !.amplitudes[1] = Complex(InvSqrt2, FZero(0)),
                   !.amplitudes[2] = Complex(InvSqrt2, FZero(0))]

\* entangleHostStates: the Bell state, whatever the two source states.
entangleHostStates(state1, state2, result) ==
    [result EXCEPT !.amplitudes[1] = Complex(InvSqrt2, FZero(0)),
                   !.amplitudes[4] = Complex(InvSqrt2, FZero(0))]

\* [128]uint64{} and [128]*HostQuantumState{}
HostRegisterCount == 128

ZeroHostRegisters == [r \in 0..(HostRegisterCount - 1) |-> Zero64]

NoQuantumRegs == [r \in 0..(HostRegisterCount - 1) |-> NilState]

\* Whether indexing the register arrays at r succeeds.
InRegisters(r) == r < HostRegisterCount

\* SetRegister: register 0 is left alone.
SetRegister(regs, reg, value) ==
    IF reg = 0 THEN regs ELSE [regs EXCEPT ![reg] = value]

\* GetRegister
GetRegister(regs, reg) == regs[reg]

\* addr + n in uint32.
Add32(addr, n) == Trunc32(Add64(addr, Nat2W(n)))

\* The checks of LoadMemory and StoreMemory: addr >= len, addr+1 >= len,
\* addr+3 >= len, the sums in uint32.
HostBoundsFail(addr, size) ==
    ~LtU(Add32(addr, size - 1), Nat2W(MemSize))

\* The addresses addr, addr+1, ... of an access, each computed in uint32.
Addrs32(addr, size) == [i \in 1..size |-> Add32(addr, i - 1)]

HostOutOfBounds == "memory access out of bounds: addr"

\* LoadMemory(addr, size): the value, the error and whether it panicked.
LoadMemory(mem, addr, size) ==
    IF size \notin {1, 2, 4}
    THEN [val |-> Zero64, err |-> "invalid memory access size", panic |-> FALSE]
    ELSE IF HostBoundsFail(addr, size)
    THEN [val |-> Zero64, err |-> HostOutOfBounds, panic |-> FALSE]
    ELSE Let(ReadLE(mem, Addrs32(addr, size)),
             LAMBDA r : [val |-> r.val, err |-> "", panic |-> r.panic])

\* StoreMemory(addr, value, size): the memory, the error and whether it
\* panicked.
StoreMemory(mem, addr, value, size) ==
    IF size \notin {1, 2, 4}
    THEN [mem |-> mem, err |-> "invalid memory access size", panic |-> FALSE]
    ELSE IF HostBoundsFail(addr, size)
    THEN [mem |-> mem, err |-> HostOutOfBounds, panic |-> FALSE]
    ELSE Let(WriteLE(mem, Addrs32(addr, size), value, 1),
             LAMBDA r : [mem |-> r.mem, err |-> "", panic |-> r.panic])

\* uint8(inst.Imm)
Uint8(w) == w[1]

\* The result stored and the measured binding dropped.
StoreMeasuredConsumed(same, inst, result) ==
    [same EXCEPT !.registers[inst.Rd] = result,
                 !.quantumRegs[inst.Rs1] = NilState]

\* m.registers[inst.Rd] = result
StoreMeasured(same, inst, result) ==
    [same EXCEPT !.registers[inst.Rd] = result]

\* return nil where an error is due: the instruction fails silently.
QuantumErrorDropped(same, text) == same

\* return fmt.Errorf(...): the call ends, the machine as it was.
QuantumError(same, text) == [same EXCEPT !.err = text]

\* ExecuteQuantumRISCV(inst) on the registers and the quantum registers:
\* what it leaves, the error it returns and whether it panicked (a register
\* number of 128 or more indexes outside the arrays).
ExecuteQuantumRISCV(regs, qregs, inst) ==
    LET same == [registers |-> regs, quantumRegs |-> qregs, err |-> "",
                 panic |-> FALSE]
        op   == inst.Opcode
    IN
    IF op = "qinit" THEN
        IF ~InRegisters(inst.Rd) THEN [same EXCEPT !.panic = TRUE]
        ELSE [same EXCEPT !.quantumRegs[inst.Rd] =
                 [NewHostQuantumState(1) EXCEPT !.amplitudes[1] = COne]]
    ELSE IF op = "qapply" THEN
        IF ~InRegisters(inst.Rs1) THEN [same EXCEPT !.panic = TRUE]
        ELSE IF qregs[inst.Rs1] = NilState
        THEN QuantumError(same, "quantum register x"
                                 \o FormatNat(inst.Rs1)
                                 \o " not initialized")
        ELSE [same EXCEPT !.quantumRegs[inst.Rs1] =
                 applyHostGate(Uint8(inst.Imm), qregs[inst.Rs1])]
    ELSE IF op = "qmeasure" THEN
        IF ~InRegisters(inst.Rs1) THEN [same EXCEPT !.panic = TRUE]
        ELSE IF qregs[inst.Rs1] = NilState
        THEN QuantumError(same, "quantum register x"
                                 \o FormatNat(inst.Rs1)
                                 \o " not initialized")
        ELSE IF ~InRegisters(inst.Rd) THEN [same EXCEPT !.panic = TRUE]
        ELSE StoreMeasured(same, inst, measureHostState(qregs[inst.Rs1]))
    ELSE IF op = "qentangle" THEN
        IF ~InRegisters(inst.Rs1) THEN [same EXCEPT !.panic = TRUE]
        ELSE IF qregs[inst.Rs1] = NilState
        THEN QuantumError(same, "quantum registers not initialized")
        ELSE IF ~InRegisters(inst.Rs2) THEN [same EXCEPT !.panic = TRUE]
        ELSE IF qregs[inst.Rs2] = NilState
        THEN QuantumError(same, "quantum registers not initialized")
        ELSE IF ~InRegisters(inst.Rd) THEN [same EXCEPT !.panic = TRUE]
        ELSE [same EXCEPT !.quantumRegs[inst.Rd] =
                 entangleHostStates(qregs[inst.Rs1], qregs[inst.Rs2],
                                    NewHostQuantumState(2))]
    ELSE QuantumError(same, "unknown quantum instruction: " \o op)

\* isQuantumInstruction
isQuantumInstruction(opcode) == opcode \in QuantumOps

\* The register-immediate results of the host executor: the shifts take
\* uint64(inst.Imm) as their count.
HostITypeResult(op, a, imm) ==
    IF op = "srai" THEN Sar64(a, imm) ELSE ITypeResult(op, a, imm).val

\* The conversions of a loaded value when signExtend is set.
HostLoadValue(op, raw) ==
    CASE op = "lw" -> SExt(raw, 4)
      [] op = "lh" -> SExt(raw, 2)
      [] op = "lb" -> SExt(raw, 1)
      [] OTHER     -> raw

\* The target of a jump with the pc++ of the loop applied to it as well.
JumpTargetSkipping(base, offset) ==
    Trunc32(Add64(Add64(base, offset), One64))

\* uint32(int64(pc) + inst.Offset), and the like from rs1 for jalr.
JumpTarget(base, offset) == Trunc32(Add64(base, offset))

\* One iteration of the loop of executeHostQuantumFile on the instruction
\* inst = program[pc]: the machine and the pc it leaves, the error it
\* returns ("" when the loop goes on) and whether it panicked.
executeHostInstruction(regs, qregs, mem, pcv, inst) ==
    LET op   == inst.Opcode
        same == [registers |-> regs, quantumRegs |-> qregs, memory |-> mem,
                 pc |-> pcv, err |-> "", panic |-> FALSE]
        next == IncPc(pcv)
        a    == GetRegister(regs, inst.Rs1)
        b    == GetRegister(regs, inst.Rs2)
        addr == Trunc32(Add64(a, inst.Offset))
    IN
    IF isQuantumInstruction(op) THEN
        Let(ExecuteQuantumRISCV(regs, qregs, inst),
            LAMBDA r :
               IF r.panic THEN [same EXCEPT !.panic = TRUE]
               ELSE IF r.err # ""
               THEN [same EXCEPT
                       !.err = "error executing quantum instruction on host at PC"]
               ELSE [same EXCEPT !.registers = r.registers,
                                 !.quantumRegs = r.quantumRegs, !.pc = next])
    ELSE IF op \in RTypeOps THEN
        [same EXCEPT !.registers = SetRegister(regs, inst.Rd, RTypeResult(op, a, b)),
                     !.pc = next]
    ELSE IF op \in ITypeOps THEN
        [same EXCEPT !.registers =
                        SetRegister(regs, inst.Rd, HostITypeResult(op, a, inst.Imm)),
                     !.pc = next]
    ELSE IF op = "lui" THEN
        [same EXCEPT !.registers =
                        SetRegister(regs, inst.Rd, Shl64(inst.Imm, Nat2W(12))),
                     !.pc = next]
    ELSE IF op = "auipc" THEN
        [same EXCEPT !.registers =
                        SetRegister(regs, inst.Rd,
                                    Add64(pcv, Shl64(inst.Imm, Nat2W(12)))),
                     !.pc = next]
    ELSE IF op = "jal" THEN
        [same EXCEPT !.registers = SetRegister(regs, inst.Rd, next),
                     !.pc = JumpTarget(pcv, inst.Offset)]
    ELSE IF op = "jalr" THEN
        [same EXCEPT !.registers = SetRegister(regs, inst.Rd, next),
                     !.pc = JumpTarget(a, inst.Offset)]
    ELSE IF op \in BranchOps THEN
        IF BranchCond(op, a, b)
        THEN [same EXCEPT !.pc = JumpTarget(pcv, inst.Offset)]
        ELSE [same EXCEPT !.pc = next]
    ELSE IF op \in LoadOps THEN
        Let(LoadMemory(mem, addr, AccessWidth(op)),
            LAMBDA r :
               IF r.panic THEN [same EXCEPT !.panic = TRUE]
               ELSE IF r.err # "" THEN [same EXCEPT !.err = "error at PC"]
               ELSE [same EXCEPT !.registers =
                        SetRegister(regs, inst.Rd, HostLoadValue(op, r.val)),
                                 !.pc = next])
    ELSE IF op \in StoreOps THEN
        Let(StoreMemory(mem, addr, b, AccessWidth(op)),
            LAMBDA r :
               IF r.panic THEN [same EXCEPT !.panic = TRUE]
               ELSE IF r.err # "" THEN [same EXCEPT !.err = "error at PC"]
               ELSE [same EXCEPT !.memory = r.mem, !.pc = next])
    ELSE [same EXCEPT !.err = "unknown instruction type at PC"]

(* ------------------------------------------------------------------ *)
(* Operations of the host engine                                        *)
(* ------------------------------------------------------------------ *)

NoHostExec ==
    [valid |-> FALSE, inst |-> NoInst, pc0 |-> Zero64,
     regs0 |-> ZeroHostRegisters, qregs0 |-> NoQuantumRegs,
     mem0 |-> EmptyMemory, err |-> "", panic |-> FALSE, before |-> <<>>]

\* NewHostQuantumMachine, before any command.
InitHost ==
    /\ hRegisters = ZeroHostRegisters
    /\ hQuantumRegs = NoQuantumRegs
    /\ hMemory = EmptyMemory
    /\ hProgram = <<>>
    /\ hPc = Zero64
    /\ hMode = "idle"
    /\ hCmd = "none"
    /\ hErr = ""
    /\ hArg = <<>>
    /\ hExec = NoHostExec
    /\ hSteps = 0
    /\ hCalls = 0

\* QuantumRISCVMachine.GetRISCProgram: the loaded program.
GetRISCProgram(prog) == prog

\* The record of one executed instruction for the history variable: the
\* instruction, the state before it, and the record of the instruction
\* before it.
HostExecRecord(inst, r) ==
    [valid |-> TRUE, inst |-> inst, pc0 |-> hPc, regs0 |-> hRegisters,
     qregs0 |-> hQuantumRegs, mem0 |-> hMemory, err |-> r.err,
     panic |-> r.panic, before |-> [hExec EXCEPT !.before = <<>>]]

\* executeHostQuantumFile(filename), entry: a new classical machine loads
\* the file, and a new host machine starts on its program at pc 0.
executeHostQuantumFile(file) ==
    /\ hMode = "idle"
    /\ hCalls < MaxCallsHost
    /\ hCmd' = "file"
    /\ hArg' = file.lines
    /\ hCalls' = hCalls + 1
    /\ hRegisters' = ZeroHostRegisters
    /\ hQuantumRegs' = NoQuantumRegs
    /\ hMemory' = EmptyMemory
    /\ hPc' = Zero64
    /\ hExec' = NoHostExec
    /\ hSteps' = 0
    /\ \E r \in {LoadResult(file, <<>>)} :
           IF r.err # ""
           THEN /\ hErr' = "error loading quantum RISC-V program"
                /\ hProgram' = <<>>
                /\ hMode' = "idle"
           ELSE /\ hErr' = ""
                /\ hProgram' = GetRISCProgram(r.prog)
                /\ hMode' = "running"
    /\ UNCHANGED <<vmVars, gateVars, shellVars>>

\* executeHostQuantumFile, one iteration of its loop.
HostStep ==
    /\ hMode = "running"
    /\ PcInProgram(hPc, hProgram)
    /\ hSteps < MaxSteps
    /\ \E inst \in {hProgram[W2Nat(hPc) + 1]} :
       \E r \in {executeHostInstruction(hRegisters, hQuantumRegs, hMemory,
                                         hPc, inst)} :
           /\ hRegisters' = r.registers
           /\ hQuantumRegs' = r.quantumRegs
           /\ hMemory' = r.memory
           /\ hPc' = r.pc
           /\ hErr' = r.err
           /\ hExec' = HostExecRecord(inst, r)
           /\ hMode' = IF r.panic THEN "panic"
                       ELSE IF r.err # "" THEN "idle" ELSE "running"
    /\ hSteps' = hSteps + 1
    /\ UNCHANGED <<hProgram, hCmd, hArg, hCalls>>
    /\ UNCHANGED <<vmVars, gateVars, shellVars>>

\* executeHostQuantumFile, exit of its loop: return nil.
HostReturn ==
    /\ hMode = "running"
    /\ ~PcInProgram(hPc, hProgram)
    /\ hMode' = "idle"
    /\ hErr' = ""
    /\ UNCHANGED <<hRegisters, hQuantumRegs, hMemory, hProgram, hPc, hCmd,
                   hArg, hExec, hSteps, hCalls>>
    /\ UNCHANGED <<vmVars, gateVars, shellVars>>

\* A call of HostQuantumMachine.ExecuteQuantumRISCV(inst) by a client that
\* holds a machine from NewHostQuantumMachine.
CallExecuteQuantumRISCV(inst) ==
    /\ hMode = "idle"
    /\ hCmd \in {"none", "quantum"}
    /\ hCmd' = "quantum"
    /\ hCalls' = hCalls + 1
    /\ \E r \in {ExecuteQuantumRISCV(hRegisters, hQuantumRegs, inst)} :
           /\ hRegisters' = r.registers
           /\ hQuantumRegs' = r.quantumRegs
           /\ hErr' = r.err
           /\ hExec' = HostExecRecord(inst, r)
           /\ hMode' = IF r.panic THEN "panic" ELSE "idle"
    /\ UNCHANGED <<hMemory, hProgram, hPc, hArg, hSteps>>
    /\ UNCHANGED <<vmVars, gateVars, shellVars>>

(* ------------------------------------------------------------------ *)
(* The monolithic backend (QuantumState and the gate catalog)           *)
(* ------------------------------------------------------------------ *)

\* 1 << n on an int of 64 bits, for n of at most 30 and for n of 64 and
\* more, where every bit is shifted out.
ShlOne(n) == IF n >= 64 THEN 0 ELSE 2^n

\* NewQuantumState: make() leaves every amplitude 0.  Amplitude i of the
\* Go slice is amplitudes[i + 1].
NewQuantumState(numQubits) ==
    [amplitudes |-> [i \in 1..ShlOne(numQubits) |-> CZero],
     numQubits |-> numQubits]

\* The client holds no *QuantumState yet.
NoQuantumState == [amplitudes |-> <<>>, numQubits |-> -1]

\* QuantumState.Normalize
Normalize(state) == [state EXCEPT !.amplitudes = Scaled(state.amplitudes)]

\* The constant -1 as a complex128.
CMinusOne == Complex(FNeg(FOne), FZero(0))

\* X with the sign of Y's first row: {0, -1}, {1, 0}.
XSigned == << <<CZero, CMinusOne>>,
              <<COne, CZero>> >>

\* The gate catalog: matrix[r][c] of the source is matrix[r + 1][c + 1].
X == << <<CZero, COne>>,
        <<COne, CZero>> >>

Y == << <<CZero, CNegI>>,
        <<CI, CZero>> >>

Z == << <<COne, CZero>>,
        <<CZero, CMinusOne>> >>

H == << <<Complex(InvSqrt2, FZero(0)), Complex(InvSqrt2, FZero(0))>>,
        <<Complex(InvSqrt2, FZero(0)), Complex(FNeg(InvSqrt2), FZero(0))>> >>

S == << <<COne, CZero>>,
        <<CZero, CI>> >>

T == << <<COne, CZero>>,
        <<CZero, ExpIPi4>> >>

CNOT == << <<COne, CZero, CZero, CZero>>,
           <<CZero, COne, CZero, CZero>>,
           <<CZero, CZero, CZero, COne>>,
           <<CZero, CZero, COne, CZero>> >>

\* (i >> k) & 1 for i >= 0 and k >= 0
IndexBit(i, k) == (i \div (2^k)) % 2

\* The result of a gate loop so far: newAmplitudes, or a run-time panic.
LoopStart(state) ==
    [panic |-> FALSE,
     amplitudes |-> [i \in 1..ShlOne(state.numQubits) |-> CZero]]

\* newIndex := otherBits | (j << target)
\* newAmplitudes[newIndex] += amp * row[j]
\* An index past the end of newAmplitudes panics.
Accumulate(r, amp, target, otherBits, row, j) ==
    IF r.panic THEN r
    ELSE Let(otherBits + j * (2^target),
             LAMBDA newIndex :
               IF newIndex >= Len(r.amplitudes)
               THEN [r EXCEPT !.panic = TRUE]
               ELSE [r EXCEPT !.amplitudes[newIndex + 1] =
                                  CAdd(@, CMul(amp, row[j + 1]))])

\* The body both Apply methods run for an index i that is acted on:
\* targetBit, otherBits and the loop over j = 0, 1 reading
\* g.matrix[targetBit][j].
TargetPair(matrix, state, r, i, target) ==
    Let(IndexBit(i, target),
        LAMBDA targetBit :
          Let(Accumulate(r, state.amplitudes[i + 1], target,
                         i - targetBit * (2^target),
                         matrix[targetBit + 1], 0),
              LAMBDA r0 :
                Accumulate(r0, state.amplitudes[i + 1], target,
                           i - targetBit * (2^target),
                           matrix[targetBit + 1], 1)))

\* controlMet: every control bit of i is 1.
ControlMet(i, controls) ==
    \A k \in 1..Len(controls) : IndexBit(i, controls[k]) = 1

\* The loop of SingleQubitGate.Apply from index i on.
RECURSIVE SingleQubitLoop(_, _, _, _, _, _)
SingleQubitLoop(matrix, state, target, controls, i, r) ==
    IF r.panic \/ i >= ShlOne(state.numQubits) THEN r
    ELSE Let(IF ControlMet(i, controls)
             THEN TargetPair(matrix, state, r, i, target)
             ELSE [r EXCEPT !.amplitudes[i + 1] = state.amplitudes[i + 1]],
             LAMBDA next :
               SingleQubitLoop(matrix, state, target, controls, i + 1, next))

\* The loop of TwoQubitGate.Apply from index i on.
RECURSIVE TwoQubitLoop(_, _, _, _, _, _)
TwoQubitLoop(matrix, state, target, controls, i, r) ==
    IF r.panic \/ i >= ShlOne(state.numQubits) THEN r
    ELSE Let(IF IndexBit(i, controls[1]) = 1
             THEN TargetPair(matrix, state, r, i, target)
             ELSE [r EXCEPT !.amplitudes[i + 1] = state.amplitudes[i + 1]],
             LAMBDA next :
               TwoQubitLoop(matrix, state, target, controls, i + 1, next))

\* What an Apply leaves: the state and whether it panicked.  A panic
\* leaves the state as it was, newAmplitudes being local.
Applied(state, r) ==
    IF r.panic THEN [panic |-> TRUE, state |-> state]
    ELSE [panic |-> FALSE,
          state |-> Normalize([state EXCEPT !.amplitudes = r.amplitudes])]

\* SingleQubitGate.Apply
SingleQubitGateApply(matrix, state, target, controls) ==
    Let(SingleQubitLoop(matrix, state, target, controls, 0, LoopStart(state)),
        LAMBDA r : Applied(state, r))

\* TwoQubitGate.Apply
TwoQubitGateApply(matrix, state, target, controls) ==
    IF Len(controls) # 1 THEN [panic |-> TRUE, state |-> state]
    ELSE Let(TwoQubitLoop(matrix, state, target, controls, 0,
                          LoopStart(state)),
             LAMBDA r : Applied(state, r))

\* The exported gates by name.
SingleQubitGates == {"X", "Y", "Z", "H", "S", "T"}

Matrix(gate) ==
    CASE gate = "X" -> X
      [] gate = "Y" -> Y
      [] gate = "Z" -> Z
      [] gate = "H" -> H
      [] gate = "S" -> S
      [] gate = "T" -> T
      [] gate = "CNOT" -> CNOT

\* gate.Apply(state, target, controls) through the Gate interface.
GateApply(gate, state, target, controls) ==
    IF gate \in SingleQubitGates
    THEN SingleQubitGateApply(Matrix(gate), state, target, controls)
    ELSE TwoQubitGateApply(Matrix(gate), state, target, controls)

NoGateExec ==
    [valid |-> FALSE, gate |-> "", target |-> 0, controls |-> <<>>,
     state0 |-> NoQuantumState, panic |-> FALSE, before |-> <<>>]

\* Before the client has made a state.
InitGate ==
    /\ qs = NoQuantumState
    /\ qsMode = "idle"
    /\ qsExec = NoGateExec
    /\ qsCalls = 0

\* qs := NewQuantumState(numQubits)
CallNewQuantumState(numQubits) ==
    /\ qsMode = "idle"
    /\ qs = NoQuantumState
    /\ qs' = NewQuantumState(numQubits)
    /\ qsCalls' = qsCalls + 1
    /\ UNCHANGED <<qsMode, qsExec>>
    /\ UNCHANGED <<vmVars, hostVars, shellVars>>

\* qs.InitializeZeroState()
InitializeZeroState ==
    /\ qsMode = "idle"
    /\ qs # NoQuantumState
    /\ qs' = [qs EXCEPT !.amplitudes[1] = COne]
    /\ qsExec' = NoGateExec
    /\ qsCalls' = qsCalls + 1
    /\ UNCHANGED qsMode
    /\ UNCHANGED <<vmVars, hostVars, shellVars>>

\* qs.SetAmplitude(index, value): an index past the end panics.
SetAmplitude(index, value) ==
    /\ qsMode = "idle"
    /\ qs # NoQuantumState
    /\ IF index < Len(qs.amplitudes)
       THEN /\ qs' = [qs EXCEPT !.amplitudes[index + 1] = value]
            /\ qsMode' = "idle"
       ELSE /\ qs' = qs
            /\ qsMode' = "panic"
    /\ qsExec' = NoGateExec
    /\ qsCalls' = qsCalls + 1
    /\ UNCHANGED <<vmVars, hostVars, shellVars>>

\* gate.Apply(qs, target, controls) for a gate of the catalog.
Apply(gate, target, controls) ==
    /\ qsMode = "idle"
    /\ qs # NoQuantumState
    /\ \E r \in {GateApply(gate, qs, target, controls)} :
           /\ qs' = r.state
           /\ qsMode' = IF r.panic THEN "panic" ELSE "idle"
           /\ qsExec' = [valid |-> TRUE, gate |-> gate, target |-> target,
                         controls |-> controls, state0 |-> qs,
                         panic |-> r.panic,
                         before |-> [qsExec EXCEPT !.before = <<>>]]
    /\ qsCalls' = qsCalls + 1
    /\ UNCHANGED <<vmVars, hostVars, shellVars>>

(* ------------------------------------------------------------------ *)
(* The machine's quantum instructions and the shells                    *)
(* ------------------------------------------------------------------ *)

\* An Instruction of the monolithic backend: Opcode and Target are uint8,
\* Controls is a []uint8.
Instruction(opcode, target, controls) ==
    [Opcode |-> opcode, Target |-> target, Controls |-> controls]

NoInstruction == Instruction(0, 0, <<>>)

\* intSlice: every uint8 as an int.
intSlice(s) == [i \in 1..Len(s) |-> s[i]]

\* %x of a number that is not negative.
RECURSIVE FormatHex(_)
FormatHex(n) ==
    IF n < 16 THEN SubSeq("0123456789abcdef", n + 1, n + 1)
    ELSE FormatHex(n \div 16)
             \o SubSeq("0123456789abcdef", (n % 16) + 1, (n % 16) + 1)

\* %d of an int.
FormatInt(n) == IF n < 0 THEN "-" \o FormatNat(0 - n) ELSE FormatNat(n)

\* QuantumRISCVMachine.MeasureQubit: the error it returns ("" for nil).
MeasureQubit(state, target) ==
    IF target < 0 \/ target >= state.numQubits
    THEN "invalid qubit number: " \o FormatInt(target)
    ELSE ""

\* The gate an opcode from 0x00 to 0x06 stands for.
OpcodeGate(opcode) ==
    CASE opcode = 0 -> "X"
      [] opcode = 1 -> "Y"
      [] opcode = 2 -> "Z"
      [] opcode = 3 -> "H"
      [] opcode = 4 -> "S"
      [] opcode = 5 -> "T"
      [] opcode = 6 -> "CNOT"

\* QuantumRISCVMachine.executeInstruction: the state it leaves, the error
\* it returns and whether it panicked.
executeInstruction(state, inst) ==
    IF inst.Opcode \in 0..6
    THEN Let(GateApply(OpcodeGate(inst.Opcode), state, inst.Target,
                       intSlice(inst.Controls)),
             LAMBDA r : [state |-> r.state, err |-> "", panic |-> r.panic])
    ELSE IF inst.Opcode = 7
    THEN [state |-> state, err |-> MeasureQubit(state, inst.Target),
          panic |-> FALSE]
    ELSE [state |-> state,
          err |-> "unknown opcode: " \o FormatHex(inst.Opcode),
          panic |-> FALSE]

\* No shell: the machine is held by a client of the quantum package.
NoShell == [kind |-> "none", numQubits |-> DefaultQubits]

NoQuantumExec ==
    [valid |-> FALSE, inst |-> NoInstruction, state0 |-> NoQuantumState,
     err |-> "", panic |-> FALSE]

\* The machine main makes without flags: NewQuantumRISCVMachine(2000).
InitShell ==
    /\ qstate = NewQuantumState(DefaultQubits)
    /\ shell = NoShell
    /\ useHost = FALSE
    /\ qExec = NoQuantumExec

\* QuantumRISCVMachine.ExecuteInstruction(inst)
ExecuteInstruction(inst) ==
    /\ vmMode = "idle"
    /\ \E r \in {executeInstruction(qstate, inst)} :
           /\ qstate' = r.state
           /\ vmErr' = r.err
           /\ vmMode' = IF r.panic THEN "panic" ELSE "idle"
           /\ qExec' = [valid |-> TRUE, inst |-> inst, state0 |-> qstate,
                        err |-> r.err, panic |-> r.panic]
    /\ vmCmd' = "quantum"
    /\ vmArg' = <<>>
    /\ exec' = NoExec
    /\ calls' = calls + 1
    /\ UNCHANGED <<registers, memory, riscProgram, pc, steps>>
    /\ UNCHANGED <<shell, useHost>>
    /\ UNCHANGED <<hostVars, gateVars>>

\* What NewQuantumRISCVMachine(numQubits) leaves in the machine a shell
\* holds.
MachineReplaced(numQubits) ==
    /\ qstate' = NewQuantumState(numQubits)
    /\ registers' = ZeroRegisters
    /\ memory' = EmptyMemory
    /\ riscProgram' = <<>>
    /\ pc' = Zero64
    /\ vmErr' = ""
    /\ vmArg' = <<>>
    /\ exec' = NoExec
    /\ qExec' = NoQuantumExec
    /\ steps' = 0
    /\ calls' = calls + 1
    /\ UNCHANGED vmMode

\* NewREPL(numQubits) of repl.go
NewREPL(numQubits) ==
    /\ shell = NoShell
    /\ calls = 0
    /\ MachineReplaced(numQubits)
    /\ vmCmd' = "new"
    /\ shell' = [kind |-> "repl", numQubits |-> numQubits]
    /\ UNCHANGED useHost
    /\ UNCHANGED <<hostVars, gateVars>>

\* NewHandler(numQubits): its host machine is the one of InitHost, which
\* no command of the handler changes.
NewHandler(numQubits) ==
    /\ shell = NoShell
    /\ calls = 0
    /\ hCalls = 0
    /\ MachineReplaced(numQubits)
    /\ vmCmd' = "new"
    /\ shell' = [kind |-> "handler", numQubits |-> numQubits]
    /\ useHost' = FALSE
    /\ UNCHANGED <<hostVars, gateVars>>

\* REPL.handleResetCommand
handleResetCommand ==
    /\ shell.kind = "repl"
    /\ vmMode = "idle"
    /\ MachineReplaced(qstate.numQubits)
    /\ vmCmd' = "reset"
    /\ UNCHANGED <<shell, useHost>>
    /\ UNCHANGED <<hostVars, gateVars>>

\* Handler.HandleReset
HandleReset ==
    /\ shell.kind = "handler"
    /\ vmMode = "idle"
    /\ MachineReplaced(HandlerResetQubits)
    /\ vmCmd' = "reset"
    /\ UNCHANGED <<shell, useHost>>
    /\ UNCHANGED <<hostVars, gateVars>>

\* Handler.HandleMode
HandleMode ==
    /\ shell.kind = "handler"
    /\ vmMode = "idle"
    /\ useHost' = ~useHost
    /\ vmCmd' = "mode"
    /\ calls' = calls + 1
    /\ UNCHANGED <<registers, memory, riscProgram, pc, vmMode, vmErr, vmArg,
                   exec, steps>>
    /\ UNCHANGED <<qstate, shell, qExec>>
    /\ UNCHANGED <<hostVars, gateVars>>

\* REPL.processCommand, case "run-host": Handler.HandleMode, then
\* Handler.HandleRun, which is h.machine.ExecuteRISCProgram() in either
\* mode; the loop of the run is RunStep and RunReturn.
RunHostCommand ==
    /\ shell.kind = "handler"
    /\ vmMode = "idle"
    /\ useHost' = ~useHost
    /\ pc' = Zero64
    /\ vmMode' = "running"
    /\ vmCmd' = "run-host"
    /\ vmErr' = ""
    /\ steps' = 0
    /\ exec' = NoExec
    /\ calls' = calls + 1
    /\ UNCHANGED <<registers, memory, riscProgram, vmArg>>
    /\ UNCHANGED <<qstate, shell, qExec>>
    /\ UNCHANGED <<hostVars, gateVars>>

(* ------------------------------------------------------------------ *)
(* Inputs of the classical engine: program files and single lines       *)
(* ------------------------------------------------------------------ *)

\* Operand values for the branch programs: equal, less, and a negative
\* value against a positive one (where signed and unsigned order differ).
BranchOperands == {<<"1", "1">>, <<"1", "2">>, <<"-1", "1">>}

\* A forward branch over one instruction.
BranchFile(op, v) ==
    << "addi x1 x0 " \o v[1],
       "addi x2 x0 " \o v[2],
       op \o " x1 x2 2",
       "addi x3 x0 7",
       "addi x4 x0 9",
       "addi x5 x0 11" >>

BranchFiles == {BranchFile(op, v) : op \in BranchOps, v \in BranchOperands}

JumpFiles ==
    { << "jal x1 2", "addi x2 x0 1", "addi x3 x0 1", "addi x4 x0 1" >>,
      << "addi x6 x0 1", "jal x0 1", "addi x2 x0 1", "addi x3 x0 1" >>,
      << "jalr x1 x0 2", "addi x2 x0 1", "addi x3 x0 1", "addi x4 x0 1" >>,
      << "addi x5 x0 1", "jalr x5 x5 1", "addi x2 x0 1", "addi x3 x0 1",
         "addi x4 x0 1" >>,
      << "addi x2 x0 3", "addi x1 x1 1", "blt x1 x2 -1", "addi x3 x0 1" >>,
      << "addi x1 x0 1", "jal x2 -5", "addi x3 x0 1" >>,
      << "jal x1 100", "addi x3 x0 1" >>,
      << "jal x0 4294967296", "addi x3 x0 1" >>,
      << "addi x1 x0 -4294967296", "bne x1 x0 -4294967296", "addi x3 x0 1" >> }

ArithFiles ==
    { << "addi x1 x0 42", "addi x2 x0 58", "add x3 x1 x2" >>,
      << "# write to x0", "", "addi x0 x0 5", "add x1 x0 x0" >>,
      << "addi x1 x0 -1", "srli x2 x1 60", "srai x3 x1 70", "slli x4 x1 64",
         "sltu x5 x0 x1", "slt x6 x0 x1" >>,
      << "lui x1 1", "auipc x2 1", "sub x3 x1 x2", "xor x4 x1 x2",
         "or x5 x1 x2", "and x6 x1 x2" >> }

\* Files with a malformed line among valid ones.
BadFiles ==
    { << "addi x1 x0 1", "addi x2 x0 2", "bogus x1", "addi x3 x0 3" >>,
      << "  addi x1 x0 1  ", "add x3, x1, x2" >>,
      << "addi x32 x0 1" >> }

MemoryFiles ==
    { << "addi x2 x0 128", "sb x2 0(x0)", "lb x3 0(x0)", "lbu x4 0(x0)" >>,
      << "addi x2 x0 32768", "sh x2 4(x0)", "lh x3 4(x0)", "lhu x4 4(x0)" >>,
      << "addi x2 x0 2147483648", "sw x2 8(x0)", "lw x3 8(x0)",
         "lwu x4 8(x0)" >>,
      << "addi x2 x0 305419896", "sw x2 8(x0)", "lh x3 8(x0)", "lb x4 11(x0)" >>,
      << "lw x1 -2(x0)" >>,
      << "addi x2 x0 7", "sh x2 -1(x0)" >>,
      << "addi x1 x0 1048576", "lb x2 0(x1)", "addi x3 x0 1" >>,
      << "addi x1 x0 1048573", "sw x1 0(x1)", "addi x3 x0 1" >>,
      << "addi x1 x0 1048572", "sw x1 0(x1)", "lw x3 0(x1)", "sb x1 3(x1)",
         "sb x1 4(x1)" >> }

Files == BranchFiles \cup JumpFiles \cup ArithFiles \cup BadFiles \cup MemoryFiles

\* An instruction with its operands separated by commas, and the same
\* instruction with white space only.
CommaPairs ==
    { << "add x3, x1, x2", "add x3 x1 x2" >>,
      << "addi x4, x0, 42", "addi x4 x0 42" >> }

\* Single instructions given to ExecuteRISCInstruction.
Lines ==
    { "addi x0 x0 5", "jal x0 -1", "jal x1 3", "lw x1 -2(x0)",
      "addi x2 x0 -1", "sw x2 0(x1)", "lw x3 0(x1)", "srai x1 x1 -1", "" }
    \cup {p[1] : p \in CommaPairs}

NextVM ==
    \/ /\ calls < MaxCallsVM
       /\ \E f \in {TextFile(l) : l \in Files} \cup {MissingFile} :
            LoadRISCProgram(f)
    \/ /\ calls < MaxCallsVM
       /\ \E l \in Lines : ExecuteRISCInstruction(l)
    \/ /\ calls < MaxCallsVM
       /\ ExecuteRISCProgram
    \/ RunStep
    \/ RunReturn

\* The store/load round trips: x2 takes the value v and x1 the address a,
\* then the store st and the load ld access 0(x1).
RoundTripValues ==
    { "0", "128", "-1", "305419896", "2147483648", "9223372036854775807" }

RoundTripAddresses == { "0", "7", "1048572", "1048574", "1048575", "1048576" }

RoundTripOps == { <<"sw", "lw">>, <<"sh", "lhu">>, <<"sb", "lbu">> }

RoundTripFile(v, a, ops) ==
    << "addi x2 x0 " \o v,
       "addi x1 x0 " \o a,
       ops[1] \o " x2 0(x1)",
       ops[2] \o " x3 0(x1)" >>

RoundTripFiles ==
    { RoundTripFile(v, a, ops) :
        v \in RoundTripValues, a \in RoundTripAddresses, ops \in RoundTripOps }

NextRT ==
    \/ /\ calls < MaxCallsVM
       /\ \E l \in RoundTripFiles : LoadRISCProgram(TextFile(l))
    \/ /\ calls < MaxCallsVM
       /\ ExecuteRISCProgram
    \/ RunStep
    \/ RunReturn

(* ------------------------------------------------------------------ *)
(* Inputs of the host engine                                            *)
(* ------------------------------------------------------------------ *)

\* Programs of quantum instructions in the operand shapes qinit rd,
\* qapply rd rs1 imm, qmeasure rd rs1 and qentangle rd rs1 rs2.
QuantumFiles ==
    { << "qinit x1" >>,
      << "qinit x1", "qapply x1 x1 3", "qmeasure x7 x1" >>,
      << "qinit x1", "qinit x2", "qentangle x3 x1 x2" >>,
      << "addi x4 x0 42", "qmeasure x7 x3" >> }

\* Register tokens beyond the 32 registers of the classical engine and
\* within the 128 of the host engine, with their numbers.
HighRegisters == { << "32", 32 >>, << "127", 127 >> }

HighRegisterFile(k) == << "addi x" \o k \o " x0 1" >>

\* Programs for executeHostQuantumFile.
HostFiles ==
    { << "addi x0 x0 5", "add x1 x0 x0" >>,
      << "addi x5 x0 9", "jal x0 2", "addi x6 x0 1", "lui x0 1", "sub x0 x5 x5" >>,
      << "addi x2 x0 128", "sb x2 0(x0)", "lb x3 0(x0)", "lbu x4 0(x0)",
         "lb x0 0(x0)" >>,
      << "addi x2 x0 32768", "sh x2 4(x0)", "lh x3 4(x0)", "lhu x4 4(x0)" >>,
      << "addi x2 x0 2147483648", "sw x2 8(x0)", "lw x3 8(x0)", "lwu x4 8(x0)" >>,
      << "lw x1 -2(x0)" >>,
      << "addi x2 x0 7", "sh x2 -1(x0)" >>,
      << "addi x2 x0 7", "sb x2 -1(x0)" >>,
      << "addi x1 x0 4294967304", "addi x2 x0 77", "sw x2 0(x1)", "lw x3 8(x0)" >>,
      << "addi x1 x0 1048576", "lb x2 0(x1)", "addi x3 x0 1" >>,
      << "addi x1 x0 1048573", "sw x1 0(x1)", "addi x3 x0 1" >>,
      << "addi x1 x0 1048572", "sw x1 0(x1)", "lw x3 0(x1)", "sb x1 3(x1)",
         "sb x1 4(x1)" >>,
      << "addi x1 x0 1", "beq x1 x1 2", "addi x3 x0 7", "addi x4 x0 9" >>,
      << "jal x1 2", "addi x2 x0 1", "jalr x3 x1 2", "addi x4 x0 1",
         "addi x5 x0 1" >>,
      << "addi x1 x0 -1", "srai x2 x1 -1", "srli x3 x1 60" >>,
      << "addi x1 x0 1", "bogus x1" >> }
    \cup QuantumFiles
    \cup {HighRegisterFile(h[1]) : h \in HighRegisters}

\* A RISCInstruction built by a client of the host machine.
QuantumInst(op, rd, rs1, rs2, imm) ==
    [NoInst EXCEPT !.Opcode = op, !.Rd = rd, !.Rs1 = rs1, !.Rs2 = rs2,
                   !.Imm = Int2W(imm)]

\* Instructions given to ExecuteQuantumRISCV.
QuantumInsts ==
    { QuantumInst("qinit", 1, 0, 0, 0),
      QuantumInst("qinit", 2, 0, 0, 0),
      QuantumInst("qapply", 0, 1, 0, 0),
      QuantumInst("qapply", 0, 1, 0, 3),
      QuantumInst("qapply", 0, 3, 0, 0),
      QuantumInst("qmeasure", 0, 1, 0, 0),
      QuantumInst("qmeasure", 5, 1, 0, 0),
      QuantumInst("qmeasure", 5, 3, 0, 0),
      QuantumInst("qentangle", 4, 1, 2, 0),
      QuantumInst("add", 1, 0, 0, 0) }

NextHost ==
    \/ \E f \in {TextFile(l) : l \in HostFiles} \cup {MissingFile} :
            executeHostQuantumFile(f)
    \/ HostStep
    \/ HostReturn
    \/ /\ hCalls < MaxCallsHost
       /\ \E inst \in QuantumInsts : CallExecuteQuantumRISCV(inst)

(* ------------------------------------------------------------------ *)
(* Inputs of the decoder: register tokens in and out of range           *)
(* ------------------------------------------------------------------ *)

\* Register numbers the register file holds, and numbers it does not:
\* the first beyond it, the largest of 8 bits, and numbers of more than 8
\* bits whose low byte is 0 and 1.
InRangeNumbers == { "5", "31" }

OutOfRangeNumbers == { "32", "255", "256", "257" }

\* Instructions naming register k as rd, as rs2 and as the base of a load.
RegisterLines(k) ==
    { "addi x" \o k \o " x0 1",
      "add x1 x0 x" \o k,
      "lw x1 0(x" \o k \o ")" }

RegisterInputs ==
    UNION {RegisterLines(k) : k \in InRangeNumbers \cup OutOfRangeNumbers}

NextReg ==
    \/ /\ calls < MaxCallsVM
       /\ \E l \in RegisterInputs : ExecuteRISCInstruction(l)
    \/ /\ calls < MaxCallsVM
       /\ \E l \in RegisterInputs :
            LoadRISCProgram(TextFile(<<"addi x1 x0 1", l>>))
    \/ /\ calls < MaxCallsVM
       /\ ExecuteRISCProgram
    \/ RunStep
    \/ RunReturn

(* ------------------------------------------------------------------ *)
(* Inputs of the classical engine: runs that end or fail                *)
(* ------------------------------------------------------------------ *)

\* Programs without jumps or branches whose instructions all succeed.
StraightFiles ==
    { << "addi x1 x0 42", "addi x2 x0 58", "add x3 x1 x2" >>,
      << "# one instruction", "", "addi x1 x0 1" >>,
      << "addi x2 x0 7", "sw x2 0(x0)", "lw x3 0(x0)", "auipc x4 0" >> }

\* Programs with an instruction that returns an error: the first one, one
\* after instructions that changed registers and memory, and one reached
\* by a jump.
FailingFiles ==
    { << "lw x1 1048576(x0)", "addi x3 x0 1" >>,
      << "addi x1 x0 1048576", "lb x2 0(x1)", "addi x3 x0 1" >>,
      << "addi x2 x0 7", "sw x2 0(x0)", "sw x2 1048573(x0)", "addi x4 x0 1" >>,
      << "jal x0 1", "addi x6 x0 1", "lh x1 1048575(x0)", "addi x3 x0 1" >> }

\* A single instruction that moves pc to 5 and writes x5.
MovePc == "jal x5 5"

NextRun ==
    \/ /\ calls < MaxCallsRun
       /\ \E l \in StraightFiles \cup FailingFiles :
            LoadRISCProgram(TextFile(l))
    \/ /\ calls < MaxCallsRun
       /\ ExecuteRISCInstruction(MovePc)
    \/ /\ calls < MaxCallsRun
       /\ ExecuteRISCProgram
    \/ RunStep
    \/ RunReturn

\* Numbers of qubits of the states a client makes.
QubitCounts == {1, 2}

\* Indexes handed to SetAmplitude; 2 and 3 are past the end of a
\* single-qubit state.
AmplitudeIndexes == 0..3

\* Values handed to SetAmplitude.
AmplitudeValues == {COne}

\* The Apply calls a client makes: every single-qubit gate on qubit 0, X
\* on qubit 1 and under a control, CNOT with one control and with none.
GateCalls ==
    {<<g, 0, <<>>>> : g \in SingleQubitGates}
        \cup {<<"X", 1, <<>>>>, <<"X", 0, <<1>>>>,
              <<"CNOT", 0, <<1>>>>, <<"CNOT", 0, <<>>>>}

NextGate ==
    \/ /\ qsCalls < MaxCallsGate
       /\ \E n \in QubitCounts : CallNewQuantumState(n)
    \/ /\ qsCalls < MaxCallsGate
       /\ InitializeZeroState
    \/ /\ qsCalls < MaxCallsGate
       /\ \E i \in AmplitudeIndexes, v \in AmplitudeValues :
            SetAmplitude(i, v)
    \/ /\ qsCalls < MaxCallsGate
       /\ \E c \in GateCalls : Apply(c[1], c[2], c[3])

\* The host instructions of a client that repeats gates on register 1:
\* qinit, and qapply with X (0), H (3) and T (5).
InvolutionInsts ==
    { QuantumInst("qinit", 1, 0, 0, 0),
      QuantumInst("qapply", 0, 1, 0, 0),
      QuantumInst("qapply", 0, 1, 0, 3),
      QuantumInst("qapply", 0, 1, 0, 5) }

\* Either a client of the monolithic backend that makes a single-qubit
\* state, sets amplitudes to 1 and applies X and H to qubit 0 again and
\* again, or a client of the host engine that does the like on quantum
\* register 1.
NextInvolution ==
    \/ /\ qsCalls < MaxCallsInvolution /\ hCalls = 0
       /\ CallNewQuantumState(1)
    \/ /\ qsCalls < MaxCallsInvolution
       /\ InitializeZeroState
    \/ /\ qsCalls < MaxCallsInvolution
       /\ \E i \in {1, 2} : SetAmplitude(i, COne)
    \/ /\ qsCalls < MaxCallsInvolution
       /\ \E g \in {"X", "H"} : Apply(g, 0, <<>>)
    \/ /\ hCalls < MaxCallsInvolution /\ qsCalls = 0
       /\ \E inst \in InvolutionInsts : CallExecuteQuantumRISCV(inst)

\* The instructions of a client of the host engine that binds quantum
\* registers 1 and 2, applies X (0) and H (3) to register 1, measures
\* bound and unbound registers into x5, and entangles into a free and into
\* a bound destination, with both, the first or the second source unbound.
BindingInsts ==
    { QuantumInst("qinit", 1, 0, 0, 0),
      QuantumInst("qinit", 2, 0, 0, 0),
      QuantumInst("qapply", 0, 1, 0, 0),
      QuantumInst("qapply", 0, 1, 0, 3),
      QuantumInst("qapply", 0, 3, 0, 0),
      QuantumInst("qmeasure", 5, 1, 0, 0),
      QuantumInst("qmeasure", 5, 3, 0, 0),
      QuantumInst("qentangle", 4, 1, 2, 0),
      QuantumInst("qentangle", 1, 1, 2, 0),
      QuantumInst("qentangle", 4, 1, 3, 0),
      QuantumInst("qentangle", 4, 3, 1, 0) }

NextBinding ==
    /\ hCalls < MaxCallsBinding
    /\ \E inst \in BindingInsts : CallExecuteQuantumRISCV(inst)

\* The instructions of a client that adds and subtracts: the constants 42
\* and 58 and their sum, -1 (the largest word), a difference below zero,
\* a register added to itself and a negative immediate.
ArithLines ==
    { "addi x1 x0 42", "addi x2 x0 58", "add x3 x1 x2", "addi x1 x0 -1",
      "sub x3 x1 x2", "sub x3 x2 x1", "add x1 x1 x1", "addi x2 x2 -100" }

NextArith ==
    /\ calls < MaxCallsArith
    /\ \E l \in ArithLines : ExecuteRISCInstruction(l)

\* Loads and stores of every width at the end of the memory (x1 holds
\* 1048573 = MemSize - 3 once it is set) and at its start (x1 holds 0
\* before), of a value whose eight bytes are fb fc fd fe ff ff ff ff.
MemLines ==
    { "addi x1 x0 1048573", "addi x2 x0 -16909061",
      "sw x2 0(x1)", "sh x2 2(x1)", "sb x2 3(x1)", "sh x2 1(x1)",
      "sw x1 1(x0)", "lw x1 0(x1)", "lb x3 3(x1)" }

\* Files for the host executor: stores and loads at the start of the
\* memory, then one past its end.
MemFiles ==
    { << "addi x2 x0 -16909061", "sw x2 0(x0)", "sh x2 1(x0)",
         "addi x1 x0 1048573", "sw x2 0(x1)" >>,
      << "addi x2 x0 -16909061", "addi x1 x0 1048573", "sb x2 2(x1)",
         "sh x2 2(x1)" >>,
      << "addi x2 x0 -16909061", "sb x2 5(x0)", "addi x1 x0 1048573",
         "sb x2 3(x1)" >>,
      << "addi x1 x0 1048573", "sh x1 1(x1)", "lw x1 0(x1)" >>,
      << "addi x1 x0 1048573", "sw x1 4(x0)", "lb x1 3(x1)" >>,
      << "addi x2 x0 -16909061", "sh x2 6(x0)", "lw x3 5(x0)" >> }

\* Either a client of the classical engine that gives it loads and stores
\* one by one, or a run of the host executor on one file.
NextMem ==
    \/ /\ calls < MaxCallsMem /\ hCalls = 0
       /\ \E l \in MemLines : ExecuteRISCInstruction(l)
    \/ /\ calls = 0 /\ hCalls = 0
       /\ \E f \in MemFiles : executeHostQuantumFile(TextFile(f))
    \/ HostStep
    \/ HostReturn

\* Programs for the host executor that branch, taken and untaken, forward
\* and backward, with every branch opcode; that jump and link with jal and
\* jalr, also with rd = rs1, rd = x0 and a target before the program; and
\* that execute other instructions.
FlowFiles ==
    { << "addi x1 x0 1", "beq x1 x1 2", "addi x3 x0 7", "bne x1 x1 2",
         "addi x4 x0 9" >>,
      << "jal x1 2", "addi x2 x0 1", "jalr x3 x1 2", "addi x4 x0 1",
         "jal x0 2", "addi x5 x0 1" >>,
      << "addi x1 x0 3", "jalr x1 x1 1", "addi x2 x0 1", "addi x2 x0 2",
         "addi x3 x0 1" >>,
      << "addi x1 x0 2", "addi x1 x1 -1", "bne x1 x0 -1", "addi x2 x0 1" >>,
      << "addi x1 x0 -1", "blt x1 x0 2", "addi x3 x0 1", "bltu x1 x0 2",
         "bgeu x1 x0 2", "addi x4 x0 1", "bge x1 x0 2", "addi x5 x0 1" >>,
      << "addi x1 x0 1", "jal x2 -3" >>,
      << "lui x1 1", "sw x1 0(x0)", "lw x2 0(x0)", "add x3 x1 x2",
         "auipc x4 1" >> }

NextFlow ==
    \/ \E f \in FlowFiles : executeHostQuantumFile(TextFile(f))
    \/ HostStep
    \/ HostReturn

\* Classical programs run on both engines: arithmetic, a write of x0,
\* stores and loads of each width, a branch, a jump, comparisons, and an
\* access outside the memory.
ConformanceFiles ==
    { << "addi x1 x0 42", "addi x2 x0 58", "add x3 x1 x2" >>,
      << "addi x0 x0 5", "add x1 x0 x0" >>,
      << "addi x2 x0 7", "sb x2 0(x0)", "lbu x3 0(x0)" >>,
      << "addi x2 x0 -1", "sw x2 8(x0)", "lw x3 8(x0)" >>,
      << "addi x2 x0 -1", "sh x2 8(x0)", "lhu x3 8(x0)", "lh x4 8(x0)" >>,
      << "addi x1 x0 1", "beq x1 x1 2", "addi x3 x0 7", "addi x4 x0 9" >>,
      << "jal x1 2", "addi x2 x0 1", "addi x3 x0 1", "addi x4 x0 1" >>,
      << "addi x1 x0 -1", "slt x2 x1 x0", "sltu x3 x1 x0", "sub x4 x0 x1" >>,
      << "addi x1 x0 12", "andi x2 x1 10", "ori x3 x1 3", "xor x4 x1 x1" >>,
      << "addi x1 x0 1048576", "lb x2 0(x1)" >>,
      << "lui x1 1", "srli x2 x1 4", "auipc x3 0" >>,
      << "addi x1 x0 3", "slli x2 x1 2", "srai x3 x2 1", "or x4 x2 x3" >> }

\* A conformance run: the file is loaded into the classical engine and
\* run there; when that run has ended, the host executor runs the same
\* file.
NextConformance ==
    \/ /\ calls = 0
       /\ \E f \in ConformanceFiles : LoadRISCProgram(TextFile(f))
    \/ /\ calls = 1 /\ vmCmd = "load" /\ vmErr = ""
       /\ ExecuteRISCProgram
    \/ RunStep
    \/ RunReturn
    \/ /\ vmCmd = "run" /\ vmMode = "idle" /\ hCalls = 0
       /\ executeHostQuantumFile(TextFile(vmArg))
    \/ HostStep
    \/ HostReturn

\* The gate the immediate of qapply selects, under the name the monolithic
\* machine gives it.
GateOfImm(imm) ==
    CASE imm = 0 -> "X"
      [] imm = 1 -> "Y"
      [] imm = 2 -> "Z"
      [] imm = 3 -> "H"
      [] imm = 4 -> "S"
      [] imm = 5 -> "T"
      [] OTHER -> ""

\* qinit x1 and qapply x1 with each single-qubit gate.
BackendInsts ==
    {QuantumInst("qinit", 1, 0, 0, 0)}
        \cup {QuantumInst("qapply", 0, 1, 0, i) : i \in 0..5}

\* A client gives single-qubit gates to a 1-qubit state of the monolithic
\* machine, then to a quantum register of the host machine.
NextBackends ==
    \/ /\ qsCalls = 0
       /\ CallNewQuantumState(1)
    \/ /\ qsCalls = 1
       /\ InitializeZeroState
    \/ /\ qsCalls >= 2 /\ qsCalls < MaxCallsBackends /\ hCalls = 0
       /\ \E g \in SingleQubitGates : Apply(g, 0, <<>>)
    \/ /\ qsExec.valid /\ hCalls < MaxCallsBackends
       /\ \E inst \in BackendInsts : CallExecuteQuantumRISCV(inst)

\* qinit x1, a Hadamard, and qapply x1 with immediates outside 0..6.
SelectInsts ==
    {QuantumInst("qinit", 1, 0, 0, 0), QuantumInst("qapply", 0, 1, 0, 3)}
        \cup {QuantumInst("qapply", 0, 1, 0, i) : i \in {7, -1, 256}}

\* A client gives the host machine immediates of qapply that name no gate.
NextSelect ==
    /\ hCalls < MaxCallsSelect
    /\ \E inst \in SelectInsts : CallExecuteQuantumRISCV(inst)

\* The amplitudes 1/sqrt2 and -1/sqrt2 a client sets by hand.
SuperpositionValues ==
    { Complex(InvSqrt2, FZero(0)), Complex(FNeg(InvSqrt2), FZero(0)) }

\* The Apply calls of X, Y, Z, S and CNOT on qubit 0: without controls,
\* with qubit 1 as the control, and X with qubit 0 as its own control.
UnitaryCalls ==
    {<<g, 0, <<>>>> : g \in {"X", "Y", "Z", "S"}}
        \cup {<<"X", 0, <<1>>>>, <<"X", 0, <<0>>>>, <<"CNOT", 0, <<1>>>>}

\* A client of the monolithic backend that makes a state, sets the first
\* two amplitudes to 1/sqrt2 or -1/sqrt2 and applies gates that are
\* not H or T.
NextNorm ==
    \/ /\ qsCalls < MaxCallsGate
       /\ \E n \in QubitCounts : CallNewQuantumState(n)
    \/ /\ qsCalls < MaxCallsGate
       /\ InitializeZeroState
    \/ /\ qsCalls < MaxCallsGate
       /\ \E i \in {0, 1}, v \in SuperpositionValues : SetAmplitude(i, v)
    \/ /\ qsCalls < MaxCallsGate
       /\ \E c \in UnitaryCalls : Apply(c[1], c[2], c[3])

\* Numbers of qubits a shell is made with.
ShellQubits == {1, 2}

\* The quantum instructions given to the machine: X and H on qubit 0,
\* CNOT on qubit 0 with one control, with none and with two, a
\* measurement of qubit 0 and of qubit 5, and opcode 0x1f.
QuantumInstructions ==
    { Instruction(0, 0, <<>>),
      Instruction(3, 0, <<>>),
      Instruction(6, 0, <<1>>),
      Instruction(6, 0, <<>>),
      Instruction(6, 0, <<1, 0>>),
      Instruction(7, 0, <<>>),
      Instruction(7, 5, <<>>),
      Instruction(31, 0, <<>>) }

\* The files and lines given to the commands load and riscv of a shell.
ShellFiles == { << "addi x1 x0 42", "sw x1 0(x0)" >> }

ShellLines == { "addi x2 x0 58", "sw x2 8(x0)", "jal x5 5" }

\* The user of a handler loads a program and gives the commands mode and
\* run-host.
NextMode ==
    \/ \E n \in ShellQubits : NewHandler(n)
    \/ /\ calls < MaxCallsMode
       /\ shell # NoShell
       /\ \E l \in ShellFiles : LoadRISCProgram(TextFile(l))
    \/ /\ calls < MaxCallsMode
       /\ HandleMode
    \/ /\ calls < MaxCallsMode
       /\ RunHostCommand
    \/ /\ shell # NoShell
       /\ RunStep
    \/ /\ shell # NoShell
       /\ RunReturn

\* A shell is made and given commands, or the machine is given quantum
\* instructions by a client of the package.
NextShell ==
    \/ \E n \in ShellQubits : NewREPL(n)
    \/ \E n \in ShellQubits : NewHandler(n)
    \/ /\ calls < MaxCallsShell
       /\ \E inst \in QuantumInstructions : ExecuteInstruction(inst)
    \/ /\ calls < MaxCallsShell
       /\ shell # NoShell
       /\ \E l \in ShellLines : ExecuteRISCInstruction(l)
    \/ /\ calls < MaxCallsShell
       /\ shell # NoShell
       /\ \E l \in ShellFiles : LoadRISCProgram(TextFile(l))
    \/ /\ calls < MaxCallsShell
       /\ handleResetCommand
    \/ /\ calls < MaxCallsShell
       /\ HandleReset
    \/ /\ calls < MaxCallsShell
       /\ HandleMode

Init == InitVM /\ InitHost /\ InitGate /\ InitShell

\* The classical engine loading and running programs that end or fail.
SpecRun == Init /\ [][NextRun]_vars

\* The same under the scheduling of ExecuteRISCProgram: its loop is
\* sequential code, so an iteration that can run does run, and so does
\* the return.
SpecRunFair == SpecRun /\ WF_vars(RunStep) /\ WF_vars(RunReturn)

\* The classical engine given instructions that name registers in and out
\* of range.
SpecReg == Init /\ [][NextReg]_vars

\* The classical engine driven by loads, runs and single instructions.
SpecVM == Init /\ [][NextVM]_vars

\* The classical engine running the store/load round trips.
SpecRT == Init /\ [][NextRT]_vars

\* The host engine driven by file executions and quantum instructions.
SpecHost == Init /\ [][NextHost]_vars

\* A client of the monolithic backend setting amplitudes and applying gates.
SpecGate == Init /\ [][NextGate]_vars

\* A client of either backend repeating gates on one qubit.
SpecInvolution == Init /\ [][NextInvolution]_vars

\* A client of the monolithic backend applying X, Y, Z, S and CNOT to
\* superpositions.
SpecNorm == Init /\ [][NextNorm]_vars

\* A shell, or a client of the machine, giving commands and quantum
\* instructions.
SpecShell == Init /\ [][NextShell]_vars

\* A client of the host engine's quantum registers.
SpecBinding == Init /\ [][NextBinding]_vars

\* A client of the classical engine that does arithmetic.
SpecArith == Init /\ [][NextArith]_vars

\* A handler given the commands load, mode and run-host.
SpecMode == Init /\ [][NextMode]_vars

\* Clients of both engines that load and store.
SpecMem == Init /\ [][NextMem]_vars

\* Runs of the host executor on programs with control flow.
SpecFlow == Init /\ [][NextFlow]_vars

\* The same classical program run by both engines.
SpecConformance == Init /\ [][NextConformance]_vars

\* The same single-qubit gates given to both quantum backends.
SpecBackends == Init /\ [][NextBackends]_vars

\* qapply with immediates that name no gate.
SpecSelect == Init /\ [][NextSelect]_vars

Next == NextVM \/ NextRT \/ NextHost \/ NextReg \/ NextRun \/ NextGate
            \/ NextInvolution \/ NextNorm \/ NextShell \/ NextBinding
            \/ NextArith \/ NextMode \/ NextMem
            \/ NextFlow \/ NextConformance
            \/ NextBackends \/ NextSelect

Spec == Init /\ [][Next]_vars

(* ------------------------------------------------------------------ *)
(* Properties                                                           *)
(* ------------------------------------------------------------------ *)

\* The low n bytes of a word, the others cleared.
LowBytes(w, n) == [i \in 1..8 |-> IF i <= n THEN w[i] ELSE 0]

\* Whether the effective address a + off, a unsigned and off signed, taken
\* as a mathematical integer, satisfies 0 <= addr and addr + w <= capacity.
\* The 64-bit sum equals the mathematical one exactly when adding a
\* negative off carries out of bit 63 and adding a non-negative one does
\* not.
MathInBounds(a, off, w) ==
    /\ IsNeg(off) <=> Carry64(a, off)
    /\ ~LtU(Nat2W(MemSize - w), Add64(a, off))

\* C1: in the classical engine register x0 reads 0 after any sequence of
\* instructions executed through ExecuteRISCInstruction or
\* ExecuteRISCProgram.
C1_X0ReadsZero == registers[0] = Zero64

\* C2: in the host engine register x0 reads 0 after any sequence of
\* classical instructions run by executeHostQuantumFile and quantum
\* instructions run by ExecuteQuantumRISCV.
C2_HostX0ReadsZero == hRegisters[0] = Zero64

\* C3: when LoadRISCProgram fails on a malformed line, the machine holds
\* no instruction afterwards.
C3_LoadAllOrNothing ==
    (vmCmd = "load" /\ vmErr = "error parsing instruction")
        => riscProgram = <<>>

\* C4: during ExecuteRISCProgram a branch at index p with offset k makes
\* the next instruction index p + k when its condition holds and p + 1
\* when it does not.
C4_BranchNextIndex ==
    (exec.valid /\ exec.inRun /\ exec.inst.Opcode \in BranchOps)
        => pc = IF BranchCond(exec.inst.Opcode, exec.regs0[exec.inst.Rs1],
                              exec.regs0[exec.inst.Rs2])
                THEN Trunc32(Add64(exec.pc0, exec.inst.Offset))
                ELSE IncPc(exec.pc0)

\* C5: during ExecuteRISCProgram jal rd, k at index p writes p + 1 into rd
\* and makes the next instruction index p + k.
C5_JalLinkAndTarget ==
    (exec.valid /\ exec.inRun /\ exec.inst.Opcode = "jal")
        => /\ registers[exec.inst.Rd] = IncPc(exec.pc0)
           /\ pc = Trunc32(Add64(exec.pc0, exec.inst.Offset))

\* C6: during ExecuteRISCProgram jalr rd, rs1, k at index p writes p + 1
\* into rd and makes the next instruction index (rs1 before the
\* instruction) + k.
C6_JalrLinkAndTarget ==
    (exec.valid /\ exec.inRun /\ exec.inst.Opcode = "jalr")
        => /\ registers[exec.inst.Rd] = IncPc(exec.pc0)
           /\ pc = Trunc32(Add64(exec.regs0[exec.inst.Rs1], exec.inst.Offset))

\* The bytes a load of the classical engine has read: those of the memory
\* before it, at its effective address.
LoadedBytes(e) ==
    ReadLE(e.mem0,
           Addrs64(Add64(e.regs0[e.inst.Rs1], e.inst.Offset),
                   AccessWidth(e.inst.Opcode))).val

\* C7: lb, lh and lw leave in rd the sign extension of the 8, 16 or 32 bits
\* loaded, and lbu, lhu and lwu their zero extension (classical engine).
C7_LoadsExtend ==
    (exec.valid /\ exec.inst.Opcode \in LoadOps /\ exec.err = "" /\ ~exec.panic)
        => registers[exec.inst.Rd] =
              IF exec.inst.Opcode \in {"lb", "lh", "lw"}
              THEN SExt(LoadedBytes(exec), AccessWidth(exec.inst.Opcode))
              ELSE LoadedBytes(exec)

\* The store whose value a load reads back.
MatchingStore(op) ==
    CASE op = "lw"  -> "sw"
      [] op = "lhu" -> "sh"
      [] op = "lbu" -> "sb"
      [] OTHER      -> "none"

\* Whether the load last executed, at index p of the running program,
\* follows at index p - 1 the matching store to the same base register and
\* offset.
LoadFollowsStore ==
    /\ exec.valid /\ exec.inRun
    /\ exec.err = "" /\ ~exec.panic
    /\ exec.inst.Opcode \in {"lw", "lhu", "lbu"}
    /\ exec.pc0 # Zero64
    /\ LET st == riscProgram[W2Nat(exec.pc0)]
       IN  /\ st.Opcode = MatchingStore(exec.inst.Opcode)
           /\ st.Rs1 = exec.inst.Rs1
           /\ st.Offset = exec.inst.Offset

\* C8: a store of x2 to an in-bounds address followed by the load of the
\* same width from that address leaves in the load's rd the low 32 (sw/lw),
\* 16 (sh/lhu) or 8 (sb/lbu) bits of x2.
C8_RoundTrip ==
    LoadFollowsStore
        => LET st == riscProgram[W2Nat(exec.pc0)]
               w  == AccessWidth(exec.inst.Opcode)
           IN  LowBytes(registers[exec.inst.Rd], w) =
                   LowBytes(exec.regs0[st.Rs2], w)

\* A word round trip of the value -1 at the last word of the memory.
C8_RoundTripReached ==
    /\ LoadFollowsStore
    /\ exec.inst.Opcode = "lw"
    /\ exec.regs0[1] = Nat2W(MemSize - 4)
    /\ registers[2] = Int2W(-1)
    /\ registers[3] = <<255, 255, 255, 255, 0, 0, 0, 0>>

\* C9: in the classical engine a load or store whose effective address
\* does not satisfy 0 <= addr and addr + w <= capacity returns the
\* out-of-bounds error, and no load or store indexes outside the buffer.
C9_OutOfBoundsIsError ==
    (exec.valid /\ exec.inst.Opcode \in LoadOps \cup StoreOps)
        => /\ ~exec.panic
           /\ ~MathInBounds(exec.regs0[exec.inst.Rs1], exec.inst.Offset,
                            AccessWidth(exec.inst.Opcode))
                 => exec.err = OutOfBounds

\* C10: in the host engine a load or store whose effective address does
\* not lie in [0, capacity - w] fails with an error, and no load or store
\* indexes outside the buffer.
C10_HostOutOfBoundsIsError ==
    (hExec.valid /\ hExec.inst.Opcode \in LoadOps \cup StoreOps)
        => /\ ~hExec.panic
           /\ ~MathInBounds(hExec.regs0[hExec.inst.Rs1], hExec.inst.Offset,
                            AccessWidth(hExec.inst.Opcode))
                 => hExec.err # ""

\* C11: a program file of quantum instructions in their operand shapes is
\* decoded and loaded, so executeHostQuantumFile does not fail on loading
\* it.
C11_QuantumOpcodesLoad ==
    (hCmd = "file" /\ hArg \in QuantumFiles)
        => hErr # "error loading quantum RISC-V program"

\* C12: an instruction whose operands are separated by commas is decoded,
\* and to the same instruction as its form with white space only.
C12_CommaFormDecodes ==
    \A p \in CommaPairs :
        (vmCmd = "riscv" /\ vmArg = <<p[1]>>)
            => /\ exec.valid
               /\ exec.inst = parseRISCInstruction(p[2]).inst

RegistersInRange(inst) ==
    inst.Rd \in 0..31 /\ inst.Rs1 \in 0..31 /\ inst.Rs2 \in 0..31

C14_HostDecodesHighRegisters ==
    \A h \in HighRegisters :
        (hCmd = "file" /\ hArg = HighRegisterFile(h[1]))
            => /\ hErr # "error loading quantum RISC-V program"
               /\ Len(hProgram) = 1
               /\ hProgram[1].Rd = h[2]

\* C15: when an instruction of a run returns an error, the run ends at
\* once with an error that carries the index the instruction was fetched
\* at; pc stays at that index, no later instruction is executed, and the
\* registers and the memory are those the earlier instructions left.
RunFailed == vmCmd = "run" /\ exec.valid /\ exec.inRun /\ exec.err # ""

C15_RunStopsAtError ==
    /\ [](RunFailed
            => /\ vmMode = "idle"
               /\ vmErr = "error at PC " \o FormatNat(W2Nat(exec.pc0)) \o ": "
                              \o exec.err
               /\ pc = exec.pc0
               /\ registers = exec.regs0
               /\ memory = exec.mem0)
    /\ [][RunFailed => ~(exec'.valid /\ exec'.inRun /\ steps' # steps)]_vars

\* A run failed at index 2 after a store: the error names index 2, and
\* the stored bytes and x2 are kept.
C15_FailedAfterStore ==
    /\ vmCmd = "run"
    /\ vmMode = "idle"
    /\ vmErr = "error at PC 2: memory access out of bounds"
    /\ registers[2] = Nat2W(7)
    /\ MemRead(memory, 0) = 7
    /\ registers[4] = Zero64

NoJumps(prog) ==
    \A i \in 1..Len(prog) : prog[i].Opcode \notin BranchOps \cup {"jal", "jalr"}

StraightRun == vmCmd = "run" /\ NoJumps(riscProgram)

\* C16: a run of a program without jumps and branches executes the
\* instructions one by one from index 0, each once and in program order;
\* it terminates, and when no instruction failed it ends with pc at the
\* length of the program and as many instructions executed, whatever pc
\* was before the run.
C16_StraightRunTerminates ==
    /\ []((StraightRun /\ vmMode = "running")
            => /\ pc = Nat2W(steps)
               /\ steps <= Len(riscProgram)
               /\ exec.valid => exec.pc0 = Nat2W(steps - 1))
    /\ []((StraightRun /\ vmMode = "idle" /\ vmErr = "")
            => /\ pc = Nat2W(Len(riscProgram))
               /\ steps = Len(riscProgram))
    /\ (StraightRun /\ vmMode = "running")
          ~> (vmMode = "idle" /\ (vmErr = "" => pc = Nat2W(Len(riscProgram))))

\* A run of a program of three instructions has ended at pc 3 after pc
\* had been moved to 5 by the instruction that wrote 4 into x5.
C16_RunEndedFromMovedPc ==
    /\ vmCmd = "run"
    /\ vmMode = "idle"
    /\ vmErr = ""
    /\ Len(riscProgram) = 3
    /\ pc = Nat2W(3)
    /\ steps = 3
    /\ registers[5] = Nat2W(4)
    /\ registers[3] = Nat2W(100)

\* The last instruction of the run was a jump or a taken branch whose
\* target, the base plus the offset as a signed number, is not an index of
\* the program.
JumpedOutside ==
    /\ exec.valid /\ exec.inRun
    /\ \/ exec.inst.Opcode \in {"jal", "jalr"}
       \/ /\ exec.inst.Opcode \in BranchOps
          /\ BranchCond(exec.inst.Opcode, exec.regs0[exec.inst.Rs1],
                        exec.regs0[exec.inst.Rs2])
    /\ LET base == IF exec.inst.Opcode = "jalr"
                   THEN exec.regs0[exec.inst.Rs1] ELSE exec.pc0
           t    == Add64(base, exec.inst.Offset)
       IN  IsNeg(t) \/ ~LtU(t, Nat2W(Len(riscProgram)))

\* C17: after a jump or a taken branch to a target outside the program the
\* run executes no further instruction.
C17_NoWrapAround ==
    [][(vmMode = "running" /\ JumpedOutside) => steps' = steps]_vars

\* The index that differs from index i in bit k only.
FlipBit(i, k) == IF IndexBit(i, k) = 1 THEN i - 2^k ELSE i + 2^k

\* The squared norm of the state as Normalize computes it is exactly 1.0.
UnitNorm(state) == FEqual(NormSum(state.amplitudes, 1, FZero(0)), FOne)

\* Two amplitude vectors are equal, component by component.
SameAmplitudes(a, b) ==
    /\ Len(a) = Len(b)
    /\ \A i \in 1..Len(a) : CEqual(a[i], b[i])

\* The amplitudes a controlled NOT leaves: an index whose control bit is 0
\* keeps its amplitude, an index whose control bit is 1 gets the amplitude
\* of the index that differs from it in the target bit.
CNOTSwapped(state, target, control) ==
    [i \in 1..Len(state.amplitudes) |->
        IF IndexBit(i - 1, control) = 0
        THEN state.amplitudes[i]
        ELSE state.amplitudes[FlipBit(i - 1, target) + 1]]

\* The last call was CNOT.Apply(state, target, [control]) on a state of
\* norm 1 with two different qubits of the state.
CNOTApplied ==
    /\ qsExec.valid /\ ~qsExec.panic
    /\ qsExec.gate = "CNOT"
    /\ Len(qsExec.controls) = 1
    /\ qsExec.controls[1] # qsExec.target
    /\ qsExec.controls[1] < qsExec.state0.numQubits
    /\ qsExec.target < qsExec.state0.numQubits
    /\ UnitNorm(qsExec.state0)

\* C18: CNOT.Apply(state, target, [control]) with control # target leaves
\* the amplitude of every index whose control bit is 0 and swaps the two
\* amplitudes of every pair of indices with control bit 1 that differ in
\* the target bit only; the state is then normalized.
C18_CNOTSwapsTargetPair ==
    CNOTApplied
        => SameAmplitudes(qs.amplitudes,
                          Scaled(CNOTSwapped(qsExec.state0, qsExec.target,
                                             qsExec.controls[1])))

\* The amplitudes M * old for a 2x2 matrix M on the target qubit: index i
\* gets M[b][0] * old[i0] + M[b][1] * old[i1], b being the target bit of i
\* and i0, i1 the indices that agree with i but for target bit 0 and 1.
MatrixApplied(matrix, state, target) ==
    [i \in 1..Len(state.amplitudes) |->
        LET b  == IndexBit(i - 1, target)
            i0 == IF b = 0 THEN i - 1 ELSE FlipBit(i - 1, target)
            i1 == IF b = 1 THEN i - 1 ELSE FlipBit(i - 1, target)
        IN  CAdd(CMul(matrix[b + 1][1], state.amplitudes[i0 + 1]),
                 CMul(matrix[b + 1][2], state.amplitudes[i1 + 1]))]

\* The last call was the Apply of a single-qubit gate of the catalog,
\* with no controls, to a qubit of a state of norm 1.
SingleQubitGateApplied ==
    /\ qsExec.valid /\ ~qsExec.panic
    /\ qsExec.gate \in SingleQubitGates
    /\ qsExec.controls = <<>>
    /\ qsExec.target < qsExec.state0.numQubits
    /\ UnitNorm(qsExec.state0)

\* C19: SingleQubitGate.Apply of a gate of the catalog transforms the
\* amplitude pairs of the target qubit by the gate's matrix M, new = M *
\* old, and normalizes: so Y takes |0> to i|1> and |1> to -i|0>, and S
\* takes |1> to i|1>.
C19_GateAppliesItsMatrix ==
    SingleQubitGateApplied
        => SameAmplitudes(qs.amplitudes,
                          Scaled(MatrixApplied(Matrix(qsExec.gate),
                                               qsExec.state0,
                                               qsExec.target)))

\* 2^-50: four units in the last place of 1.0.
Tolerance == FNum(0, <<0, 0, 0, 0, 1>>, -102)

\* |x - y| <= Tolerance
FClose(x, y) ==
    Let(FSub(x, y),
        LAMBDA d : d.c = "num" /\ ~FGreater([d EXCEPT !.s = 0], Tolerance))

\* Two amplitude vectors agree within Tolerance in every real and
\* imaginary part.
CloseAmplitudes(a, b) ==
    /\ Len(a) = Len(b)
    /\ \A i \in 1..Len(a) : FClose(a[i].re, b[i].re) /\ FClose(a[i].im, b[i].im)

\* A single-qubit state whose squared norm is 1 within Tolerance.
NormalizedQubit(amplitudes) ==
    /\ Len(amplitudes) = 2
    /\ FClose(NormSum(amplitudes, 1, FZero(0)), FOne)

\* The last two calls of the client of the monolithic backend were
\* X.Apply(qs, 0, nil), the first of them on a normalized single-qubit
\* state.
XTwice ==
    /\ qsExec.valid /\ ~qsExec.panic
    /\ qsExec.gate = "X" /\ qsExec.target = 0 /\ qsExec.controls = <<>>
    /\ qsExec.before.valid /\ ~qsExec.before.panic
    /\ qsExec.before.gate = "X" /\ qsExec.before.target = 0
    /\ qsExec.before.controls = <<>>
    /\ NormalizedQubit(qsExec.before.state0.amplitudes)

\* qapply with imm 0 (X) on quantum register 1.
HostX == QuantumInst("qapply", 0, 1, 0, 0)

\* The last two instructions of the client of the host engine were qapply
\* with X on quantum register 1, the first of them on a normalized state.
HostXTwice ==
    /\ hExec.valid /\ ~hExec.panic /\ hExec.err = ""
    /\ hExec.inst = HostX
    /\ hExec.before.valid /\ ~hExec.before.panic /\ hExec.before.err = ""
    /\ hExec.before.inst = HostX
    /\ NormalizedQubit(hExec.before.qregs0[1].amplitudes)

\* C20 as stated: X applied twice to a normalized single-qubit state
\* returns exactly the amplitude pair it started from, in the monolithic
\* backend and in the host engine.
C20_XTwiceExact ==
    /\ XTwice => SameAmplitudes(qs.amplitudes,
                                qsExec.before.state0.amplitudes)
    /\ HostXTwice => SameAmplitudes(hQuantumRegs[1].amplitudes,
                                    hExec.before.qregs0[1].amplitudes)

\* C20, amended: X applied twice to a normalized single-qubit state
\* returns the amplitude pair it started from to within Tolerance in every
\* real and imaginary part, in the monolithic backend and in the host
\* engine.
C20_XTwiceWithinRounding ==
    /\ XTwice => CloseAmplitudes(qs.amplitudes,
                                 qsExec.before.state0.amplitudes)
    /\ HostXTwice => CloseAmplitudes(hQuantumRegs[1].amplitudes,
                                     hExec.before.qregs0[1].amplitudes)

\* X has been applied twice to a normalized superposition in the
\* monolithic backend, and the pair that came back is not the pair it
\* started from.
C20_XTwiceRounded ==
    /\ XTwice
    /\ ~FIsZero(qsExec.before.state0.amplitudes[1].re)
    /\ ~FIsZero(qsExec.before.state0.amplitudes[2].re)
    /\ ~SameAmplitudes(qs.amplitudes, qsExec.before.state0.amplitudes)

\* The squared norm of the amplitudes, as Normalize computes it, is 1
\* within Tolerance.
NormalizedVector(amplitudes) ==
    FClose(NormSum(amplitudes, 1, FZero(0)), FOne)

\* The last call was the Apply of X, Y, Z, S or CNOT to a qubit of a
\* normalized state, and it returned.
UnitaryApplied ==
    /\ qsExec.valid /\ ~qsExec.panic
    /\ qsExec.gate \in {"X", "Y", "Z", "S", "CNOT"}
    /\ qsExec.target < qsExec.state0.numQubits
    /\ NormalizedVector(qsExec.state0.amplitudes)

\* C21: after the application of X, Y, Z, S or CNOT, with any controls, to
\* an in-range target of a normalized state the sum of the squared
\* magnitudes of the amplitudes is 1 (within Tolerance), so it is after
\* every step of a sequence of such applications.
C21_NormPreserved ==
    UnitaryApplied => NormalizedVector(qs.amplitudes)

\* The state |0>^n: amplitude 1 at index 0 and 0 at every other index.
IsZeroKet(st) ==
    /\ Len(st.amplitudes) >= 1
    /\ CEqual(st.amplitudes[1], COne)
    /\ \A i \in 2..Len(st.amplitudes) : CEqual(st.amplitudes[i], CZero)

\* A shell has just made its machine, or the REPL of repl.go has just
\* replaced it on the command reset.
MachineIsFresh ==
    \/ vmCmd = "new"
    \/ vmCmd = "reset" /\ shell.kind = "repl"

\* C22: the quantum state of a machine that was just constructed, and of
\* the machine after the reset command of the REPL, is |0>^n: amplitude 1
\* at index 0 and 0 elsewhere, so its total probability is 1.
C22_FreshStateIsZeroKet ==
    MachineIsFresh
        => /\ IsZeroKet(qstate)
           /\ NormalizedVector(qstate.amplitudes)

(* ------------------------------------------------------------------ *)
(* C23: qmeasure of the host engine as an argmax                        *)
(* ------------------------------------------------------------------ *)

\* The probability that qubit 0 of a bound state has value v: the sum of
\* |amplitude|^2 over the indexes whose bit 0 is v.
Marginal(state, v) ==
    IF state.numQubits = 1 THEN NormSq(state.amplitudes[v + 1])
    ELSE FAdd(NormSq(state.amplitudes[v + 1]),
              NormSq(state.amplitudes[v + 3]))

\* The value of greater probability, 0 when the two are equal.
ArgmaxTiesZero(state) ==
    IF FGreater(Marginal(state, 1), Marginal(state, 0)) THEN One64
    ELSE Zero64

\* The last call was a qmeasure that returned nil.
Measured ==
    /\ hCmd = "quantum"
    /\ hExec.valid
    /\ hExec.inst.Opcode = "qmeasure"
    /\ hExec.err = ""
    /\ ~hExec.panic

\* C23: after a qmeasure rd, rs1 that succeeds, scalar register rd holds
\* the value of qubit 0 whose probability in the state bound to rs1 is the
\* greater, and 0 when the two probabilities are equal.
C23_MeasureIsArgmax ==
    Measured =>
        hRegisters[hExec.inst.Rd] =
            ArgmaxTiesZero(hExec.qregs0[hExec.inst.Rs1])

(* ------------------------------------------------------------------ *)
(* C24: quantum instructions on unbound registers                       *)
(* ------------------------------------------------------------------ *)

\* Register r of the register file had no quantum binding before the last
\* call.
WasUnbound(r) == InRegisters(r) /\ hExec.qregs0[r] = NilState

\* The last call was a qapply or a qmeasure whose rs1 had no binding, or a
\* qentangle one of whose sources had none.
UnboundSource ==
    /\ hCmd = "quantum"
    /\ hExec.valid
    /\ \/ /\ hExec.inst.Opcode \in {"qapply", "qmeasure"}
          /\ WasUnbound(hExec.inst.Rs1)
       \/ /\ hExec.inst.Opcode = "qentangle"
          /\ InRegisters(hExec.inst.Rs1)
          /\ WasUnbound(hExec.inst.Rs1) \/ WasUnbound(hExec.inst.Rs2)

\* C24: a qapply or qmeasure on a register without a quantum binding, and
\* a qentangle with a source without one, returns an error and leaves
\* every scalar register and every quantum binding as it was.
C24_UnboundIsError ==
    UnboundSource =>
        /\ hErr # ""
        /\ hExec.err = hErr
        /\ hMode = "idle"
        /\ hRegisters = hExec.regs0
        /\ hQuantumRegs = hExec.qregs0

\* A qentangle whose first source is bound and whose second is not was
\* rejected on a machine that holds a binding and a scalar register of 1.
C24_UnboundRejected ==
    /\ UnboundSource
    /\ hExec.inst.Opcode = "qentangle"
    /\ hExec.qregs0[hExec.inst.Rs1] # NilState
    /\ hErr = "quantum registers not initialized"
    /\ hRegisters[5] = One64
    /\ hQuantumRegs[1] # NilState

(* ------------------------------------------------------------------ *)
(* C25: qentangle binds the Bell state                                  *)
(* ------------------------------------------------------------------ *)

\* The last call was a qentangle that returned nil.
Entangled ==
    /\ hCmd = "quantum"
    /\ hExec.valid
    /\ hExec.inst.Opcode = "qentangle"
    /\ hExec.err = ""
    /\ ~hExec.panic

\* (|00> + |11>)/sqrt2 on two qubits.
BellState ==
    [numQubits |-> 2,
     amplitudes |-> << Complex(InvSqrt2, FZero(0)), CZero, CZero,
                       Complex(InvSqrt2, FZero(0)) >>]

\* C25: after a qentangle rd, rs1, rs2 that succeeds, which is one whose
\* sources were both bound, rd is bound to the Bell state on two qubits,
\* whatever rs1, rs2 and rd were bound to.
C25_EntangleBindsBell ==
    Entangled =>
        /\ hExec.qregs0[hExec.inst.Rs1] # NilState
        /\ hExec.qregs0[hExec.inst.Rs2] # NilState
        /\ hQuantumRegs[hExec.inst.Rd] = BellState

\* A qentangle succeeded whose destination was bound before and whose
\* first source was not in the state qinit leaves.
C25_EntangledOverBinding ==
    /\ Entangled
    /\ hExec.qregs0[hExec.inst.Rd] # NilState
    /\ hExec.qregs0[hExec.inst.Rs1].amplitudes[1] # COne
    /\ hQuantumRegs[hExec.inst.Rd] = BellState

(* ------------------------------------------------------------------ *)
(* C26: the sources of qentangle                                        *)
(* ------------------------------------------------------------------ *)

\* C26: after a qentangle rd, rs1, rs2 that succeeds, the sources other
\* than rd hold no quantum binding any more.
C26_EntangleUnbindsSources ==
    Entangled =>
        \A r \in {hExec.inst.Rs1, hExec.inst.Rs2} \ {hExec.inst.Rd} :
            hQuantumRegs[r] = NilState

(* ------------------------------------------------------------------ *)
(* C27: qmeasure reads the binding                                      *)
(* ------------------------------------------------------------------ *)

\* The last two calls were the same qmeasure, and both returned nil.
MeasuredTwice ==
    /\ Measured
    /\ hExec.before.valid
    /\ hExec.before.inst = hExec.inst
    /\ hExec.before.err = ""
    /\ ~hExec.before.panic

\* C27: a qmeasure rd, rs1 that succeeds leaves every quantum binding,
\* that of rs1 included, and every scalar register but rd as they were;
\* when the call before it was the same qmeasure, rd keeps the value that
\* call gave it.
C27_MeasureReadsOnly ==
    Measured =>
        /\ hQuantumRegs = hExec.qregs0
        /\ \A r \in DOMAIN hRegisters :
               r # hExec.inst.Rd => hRegisters[r] = hExec.regs0[r]
        /\ MeasuredTwice => hRegisters[hExec.inst.Rd] =
                                hExec.regs0[hExec.inst.Rd]

\* The same qmeasure ran twice on a state a gate had changed, and gave 1.
C27_MeasuredAgain ==
    /\ MeasuredTwice
    /\ hQuantumRegs[hExec.inst.Rs1].amplitudes[1] # COne
    /\ hRegisters[hExec.inst.Rd] = One64

(* ------------------------------------------------------------------ *)
(* C28: reset as construction                                           *)
(* ------------------------------------------------------------------ *)

\* What a shell made for shell.numQubits qubits owns right after its
\* construction.
AsConstructed ==
    /\ registers = ZeroRegisters
    /\ memory = EmptyMemory
    /\ riscProgram = <<>>
    /\ pc = Zero64
    /\ qstate = NewQuantumState(shell.numQubits)
    /\ hRegisters = ZeroHostRegisters
    /\ hQuantumRegs = NoQuantumRegs
    /\ useHost = FALSE

\* C28: right after the command reset, the machine of the shell (its
\* registers, memory, program, pc and quantum state), the host machine
\* and the mode are those of a shell newly made with the number of qubits
\* the shell was made with.
C28_ResetIsConstruction == vmCmd = "reset" => AsConstructed

(* ------------------------------------------------------------------ *)
(* C29: CNOT without exactly one control                                *)
(* ------------------------------------------------------------------ *)

\* The last command was ExecuteInstruction of opcode 0x06 with no control
\* or with more than one.
CNOTControlsMiscounted ==
    /\ vmCmd = "quantum"
    /\ qExec.valid
    /\ qExec.inst.Opcode = 6
    /\ Len(qExec.inst.Controls) # 1

\* C29: ExecuteInstruction of CNOT with a number of controls other than
\* one returns an error, the program goes on, and the state vector is the
\* one before the call.
C29_ControlCountIsError ==
    CNOTControlsMiscounted =>
        /\ vmMode # "panic"
        /\ vmErr # ""
        /\ qstate = qExec.state0

(* ------------------------------------------------------------------ *)
(* C30: add, sub and addi modulo 2^64                                   *)
(* ------------------------------------------------------------------ *)

\* The bytes of a + b from byte i on, least significant first, by
\* addition with carry; the carry out of byte 8 is dropped.
RECURSIVE SumBytes(_, _, _, _)
SumBytes(a, b, i, carry) ==
    IF i > 8 THEN <<>>
    ELSE <<(a[i] + b[i] + carry) % 256>>
         \o SumBytes(a, b, i + 1, (a[i] + b[i] + carry) \div 256)

\* a + b modulo 2^64.
SumMod(a, b) == SumBytes(a, b, 1, 0)

\* The last command executed one instruction of opcode op without error.
Executed(op) ==
    /\ vmCmd = "riscv"
    /\ exec.valid
    /\ exec.inst.Opcode = op
    /\ exec.err = ""
    /\ ~exec.panic

\* C30: add leaves in rd the sum modulo 2^64 of what rs1 and rs2 held
\* before it; sub leaves in rd the word that, added to what rs2 held,
\* gives what rs1 held; addi leaves in rd the sum of what rs1 held and
\* the immediate as a word, so that after addi x2 x2 -100 the new x2 plus
\* 100 is the old x2; and add x3 x1 x2 on x1 = 42, x2 = 58 leaves 100.
C30_ArithmeticWraps ==
    /\ Executed("add") =>
           registers[exec.inst.Rd] =
               SumMod(exec.regs0[exec.inst.Rs1], exec.regs0[exec.inst.Rs2])
    /\ Executed("sub") =>
           SumMod(registers[exec.inst.Rd], exec.regs0[exec.inst.Rs2]) =
               exec.regs0[exec.inst.Rs1]
    /\ Executed("addi") =>
           registers[exec.inst.Rd] =
               SumMod(exec.regs0[exec.inst.Rs1], exec.inst.Imm)
    /\ Executed("addi") /\ vmArg = <<"addi x2 x2 -100">> =>
           SumMod(registers[2], Nat2W(100)) = exec.regs0[2]
    /\ Executed("addi") /\ vmArg = <<"addi x1 x0 42">> =>
           registers[1] = Nat2W(42)
    /\ Executed("addi") /\ vmArg = <<"addi x2 x0 58">> =>
           registers[2] = Nat2W(58)
    /\ Executed("add") /\ exec.regs0[1] = Nat2W(42)
                       /\ exec.regs0[2] = Nat2W(58)
                       /\ vmArg = <<"add x3 x1 x2">> =>
           registers[3] = Nat2W(100)

\* addi x1 x0 42, addi x2 x0 58 and add x3 x1 x2 ran on a new machine.
C30_SumIsHundred ==
    /\ Executed("add")
    /\ vmArg = <<"add x3 x1 x2">>
    /\ calls = 3
    /\ registers[1] = Nat2W(42)
    /\ registers[2] = Nat2W(58)
    /\ registers[3] = Nat2W(100)

(* ------------------------------------------------------------------ *)
(* C31: the length of the state vector                                  *)
(* ------------------------------------------------------------------ *)

\* Whether len = 2^n, by halving n times.
RECURSIVE IsPowerOfTwo(_, _)
IsPowerOfTwo(len, n) ==
    IF n = 0 THEN len = 1
    ELSE /\ len > 0
         /\ len % 2 = 0
         /\ IsPowerOfTwo(len \div 2, n - 1)

\* C31: the state vector of a machine of n qubits has 2^n amplitudes, for
\* the default of 2000 qubits as for every other n.
C31_LengthIsPowerOfQubits ==
    IsPowerOfTwo(Len(qstate.amplitudes), qstate.numQubits)

(* ------------------------------------------------------------------ *)
(* C32: the command run-host                                            *)
(* ------------------------------------------------------------------ *)

\* C32: during and after a command run-host the handler is in host-native
\* mode and the machine of the VM mode has executed no instruction of the
\* program.
C32_RunHostIsHostNative ==
    vmCmd = "run-host" =>
        /\ useHost
        /\ ~exec.valid

(* ------------------------------------------------------------------ *)
(* C33: a load or store out of bounds changes nothing                   *)
(* ------------------------------------------------------------------ *)

\* The classical engine's last command was a load or store that returned
\* an error.
AccessFailed ==
    /\ vmCmd = "riscv"
    /\ exec.valid
    /\ exec.inst.Opcode \in LoadOps \cup StoreOps
    /\ exec.err # ""

\* The host executor's last instruction was a load or store that returned
\* an error.
HostAccessFailed ==
    /\ hCmd = "file"
    /\ hExec.valid
    /\ hExec.inst.Opcode \in LoadOps \cup StoreOps
    /\ hExec.err # ""

\* C33: after a load or store that returned an error, in either engine,
\* every byte of memory, every register and pc are what they were before
\* the instruction.
C33_FailedAccessChangesNothing ==
    /\ AccessFailed =>
           /\ memory = exec.mem0
           /\ registers = exec.regs0
           /\ pc = exec.pc0
    /\ HostAccessFailed =>
           /\ hMemory = hExec.mem0
           /\ hRegisters = hExec.regs0
           /\ hPc = hExec.pc0

\* A load into a register that held a value failed in the classical
\* engine on a memory that held bytes.
C33_AccessRejected ==
    /\ AccessFailed
    /\ exec.inst.Opcode = "lw"
    /\ exec.regs0[exec.inst.Rd] # Zero64
    /\ memory # EmptyMemory

\* A store of a word failed in the host executor on a memory that held
\* bytes.
HostAccessRejected ==
    /\ HostAccessFailed
    /\ hExec.inst.Opcode = "sw"
    /\ hMemory # EmptyMemory

(* ------------------------------------------------------------------ *)
(* C34: what a store writes                                             *)
(* ------------------------------------------------------------------ *)

\* The memory m1 is the memory m0 with the low w bytes of val at the
\* addresses a, a+1, ..., least significant first, and every other byte
\* as in m0.
IsStoreOf(m1, m0, a, w, val) ==
    \A x \in DOMAIN m1 \cup DOMAIN m0 \cup a..(a + w - 1) :
        MemRead(m1, x) = IF x \in a..(a + w - 1) THEN val[x - a + 1]
                         ELSE MemRead(m0, x)

\* The classical engine's last command was a store that succeeded.
Stored ==
    /\ vmCmd = "riscv"
    /\ exec.valid
    /\ exec.inst.Opcode \in StoreOps
    /\ exec.err = ""
    /\ ~exec.panic

\* The host executor's last instruction was a store that succeeded.
HostStored ==
    /\ hCmd = "file"
    /\ hExec.valid
    /\ hExec.inst.Opcode \in StoreOps
    /\ hExec.err = ""
    /\ ~hExec.panic

\* C34: after a store that succeeds, in either engine, the w bytes at
\* a = rs1 + offset and after hold the low w bytes of rs2, least
\* significant first (w = 1 for sb, 2 for sh, 4 for sw), every other byte
\* of memory is what it was and so is every register.
C34_StoreWritesLowBytes ==
    /\ Stored =>
           /\ IsStoreOf(memory, exec.mem0,
                        W2Nat(SumMod(exec.regs0[exec.inst.Rs1],
                                     exec.inst.Offset)),
                        IF exec.inst.Opcode = "sb" THEN 1
                        ELSE IF exec.inst.Opcode = "sh" THEN 2 ELSE 4,
                        exec.regs0[exec.inst.Rs2])
           /\ registers = exec.regs0
    /\ HostStored =>
           /\ IsStoreOf(hMemory, hExec.mem0,
                        W2Nat(SumMod(hExec.regs0[hExec.inst.Rs1],
                                     hExec.inst.Offset)),
                        IF hExec.inst.Opcode = "sb" THEN 1
                        ELSE IF hExec.inst.Opcode = "sh" THEN 2 ELSE 4,
                        hExec.regs0[hExec.inst.Rs2])
           /\ hRegisters = hExec.regs0

\* A halfword of a value whose third byte is not 0 was stored over bytes
\* that held other values, in a memory that keeps bytes beside it.
C34_HalfwordStoredOver ==
    /\ Stored
    /\ exec.inst.Opcode = "sh"
    /\ exec.regs0[exec.inst.Rs2][3] # 0
    /\ exec.regs0[exec.inst.Rs2][1] # exec.regs0[exec.inst.Rs2][2]
    /\ memory # exec.mem0
    /\ \E x \in DOMAIN exec.mem0 : x \in DOMAIN memory /\ memory[x] = exec.mem0[x]

\* The same in the host executor.
HostHalfwordStoredOver ==
    /\ HostStored
    /\ hExec.inst.Opcode = "sh"
    /\ hExec.regs0[hExec.inst.Rs2][3] # 0
    /\ hMemory # hExec.mem0

(* ------------------------------------------------------------------ *)
(* C35: the program counter of the host executor                        *)
(* ------------------------------------------------------------------ *)

\* The host executor's last instruction succeeded.
HostRan ==
    /\ hCmd = "file"
    /\ hExec.valid
    /\ hExec.err = ""
    /\ ~hExec.panic

\* base + offset as an index of 32 bits.
IndexSum(base, offset) ==
    [i \in 1..8 |-> IF i <= 4 THEN SumMod(base, offset)[i] ELSE 0]

\* rd holds the index after that of the last instruction, unless rd is x0.
Linked ==
    hExec.inst.Rd # 0 =>
        hRegisters[hExec.inst.Rd] = IndexSum(hExec.pc0, One64)

BothRunsEnded ==
    /\ vmCmd = "run"
    /\ vmMode = "idle"
    /\ hCmd = "file"
    /\ hMode = "idle"
    /\ hArg = vmArg

\* C36: when both runs of a classical program have ended, one has failed
\* exactly when the other has, and when neither has, registers x0..x31
\* and the memory of the two machines are equal.
C36_EnginesAgree ==
    BothRunsEnded =>
        /\ (vmErr = "") <=> (hErr = "")
        /\ vmErr = "" =>
               /\ \A r \in 0..31 : registers[r] = hRegisters[r]
               /\ memory = hMemory

(***************************************************************************)
(* C37: the two quantum backends agree on single-qubit gates.              *)
(***************************************************************************)

\* The last call to the monolithic machine applied a single-qubit gate to
\* qubit 0 without controls, and the last call to the host machine applied
\* the same gate by qapply to a register bound to the same amplitudes.
SameGateOnBoth ==
    /\ qsExec.valid /\ ~qsExec.panic
    /\ qsExec.gate \in SingleQubitGates
    /\ qsExec.target = 0 /\ qsExec.controls = <<>>
    /\ qsExec.state0.numQubits = 1
    /\ hExec.valid /\ ~hExec.panic /\ hExec.err = ""
    /\ hExec.inst.Opcode = "qapply"
    /\ GateOfImm(Uint8(hExec.inst.Imm)) = qsExec.gate
    /\ hExec.qregs0[hExec.inst.Rs1] # NilState
    /\ hExec.qregs0[hExec.inst.Rs1].amplitudes = qsExec.state0.amplitudes

\* C37: for a normalized 1-qubit state and each gate X, Y, Z, H, S, T,
\* SingleQubitGate.Apply on target 0 without controls and applyHostGate with
\* the immediate of that gate leave the same pair of amplitudes.
C37_BackendsAgree ==
    SameGateOnBoth =>
        hQuantumRegs[hExec.inst.Rs1].amplitudes = qs.amplitudes

(***************************************************************************)
(* C38: R-type and I-type instructions run to completion.                  *)
(***************************************************************************)

\* The last call decoded a register-register or register-immediate
\* instruction and gave it to executeRISCInstruction.
RegisterOpExecuted ==
    /\ exec.valid
    /\ exec.inst.Opcode \in RTypeOps \cup ITypeOps

\* C38: every R-type and I-type instruction the decoder accepts runs to
\* completion whatever the registers and the immediate hold, negative shift
\* amounts and shift amounts of 64 and more included: it returns nil and
\* does not abort the process.
C38_RegisterOpsComplete ==
    RegisterOpExecuted =>
        /\ ~exec.panic
        /\ exec.err = ""
        /\ vmMode # "panic"

(***************************************************************************)
(* C39: gate instructions on qubits the machine does not have.             *)
(***************************************************************************)

\* The last call was ExecuteInstruction with a gate opcode whose target or
\* one of whose controls is not a qubit of the machine.
GateOutOfRange ==
    /\ qExec.valid
    /\ qExec.inst.Opcode \in 0..6
    /\ \/ qExec.inst.Target >= qExec.state0.numQubits
       \/ \E k \in 1..Len(qExec.inst.Controls) :
              qExec.inst.Controls[k] >= qExec.state0.numQubits

\* C39: a gate instruction whose target or control index is at least the
\* qubit count of the machine is rejected with an error, as MeasureQubit
\* rejects it, without indexing the amplitudes out of range and without a
\* change to the state vector.
C39_GateIndexChecked ==
    GateOutOfRange =>
        /\ ~qExec.panic
        /\ qExec.err # ""
        /\ qstate = qExec.state0

(***************************************************************************)
(* C40: the immediate of qapply selects the gate.                          *)
(***************************************************************************)

\* The last call was a qapply that succeeded on a bound register with an
\* immediate outside 0..6.
NoGateSelected ==
    /\ hCmd = "quantum"
    /\ hExec.valid /\ ~hExec.panic /\ hExec.err = ""
    /\ hExec.inst.Opcode = "qapply"
    /\ hExec.inst.Imm \notin {Int2W(i) : i \in 0..6}
    /\ hExec.qregs0[hExec.inst.Rs1] # NilState

\* C40: a qapply whose immediate is outside 0..6, as 7, -1 and 256 are,
\* applies none of the seven gates: the amplitudes of the normalized state
\* bound to rs1 are as they were before it.
C40_OtherImmediatesApplyNothing ==
    NoGateSelected =>
        hQuantumRegs[hExec.inst.Rs1].amplitudes
            = hExec.qregs0[hExec.inst.Rs1].amplitudes

====
